---- MODULE Spec2Model ----
(***************************************************************************)
(* NUMA-aware memory admission: the topology manager's container scope     *)
(* (containerScope.Admit, scope.AddContainer/RemoveContainer/GetAffinity)  *)
(* and the memory manager's static policy (Allocate, RemoveContainer,      *)
(* GetTopologyHints, calculateHints, ...).                                 *)
(*                                                                         *)
(* Sizes are bytes.  The host is the two-node machine of the memory        *)
(* manager's test, scaled down: every size of the test is divided by       *)
(* 2^20 (1 GiB becomes 1024 bytes) and the node's memory is 4 units.       *)
(* A resource quantity is modelled by its value in thousandths, the        *)
(* finest scale of resource.Quantity.                                      *)
(***************************************************************************)
EXTENDS Integers, Sequences, FiniteSets, TLC

VARIABLES
    pods,              \* the pod objects the callers pass: podUID -> pod
    policyName,        \* scope.policy.Name()
    machineState,      \* state.GetMachineState(): node id -> NodeState
    assignments,       \* state.GetMemoryAssignments(): <<podUID, container>> -> blocks
    memoryToReuse,     \* staticPolicy.memoryToReuse: podUID -> blocks
    podTopologyHints,  \* scope.podTopologyHints: podUID -> container -> hint
    podMap,            \* scope.podMap: containerID -> podUID
    admit,             \* position of the Admit call in progress, and its result
    mutex,             \* scope.mutex: the caller that holds it, or ""
    pc,                \* where each concurrent caller of the scope is in its call
    manager,           \* the manager: its policy, manager.containerMap and the
                       \* pods manager.activePods() returns
    last               \* the last call made on the static policy or on the scope's
                       \* container index: the operation, its arguments, whether
                       \* the container had blocks (the id was bound), and the error

vars == <<pods, policyName, machineState, assignments, memoryToReuse,
          podTopologyHints, podMap, admit, mutex, pc, manager, last>>

----------------------------------------------------------------------------
(* Bounds *)

\* the largest memory request of a container, in units of 1024 bytes
MaxRequest == 3

----------------------------------------------------------------------------
(* Generic helpers: Go maps are functions with a finite domain *)

EmptyMap == [x \in {} |-> x]

MapSet(f, k, v) == [x \in (DOMAIN f) \cup {k} |-> IF x = k THEN v ELSE f[x]]

MapDel(f, k) == [x \in (DOMAIN f) \ {k} |-> f[x]]

Min(a, b) == IF a < b THEN a ELSE b

RECURSIVE SortedSeq(_)
SortedSeq(S) ==
    IF S = {} THEN <<>>
    ELSE LET m == CHOOSE x \in S : \A y \in S : x <= y
         IN  <<m>> \o SortedSeq(S \ {m})

SeqToSet(s) == {s[i] : i \in 1..Len(s)}

RECURSIVE SumOver(_, _)
\* sum of f[x] over the elements x of the set S
SumOver(f, S) ==
    IF S = {} THEN 0
    ELSE LET x == CHOOSE y \in S : TRUE IN f[x] + SumOver(f, S \ {x})

----------------------------------------------------------------------------
(* Resource names and the host *)

ResourceMemory == "memory"
hugepages1Gi == "hugepages-1Gi"
ResourceCPU == "cpu"

\* corehelper.IsHugePageResourceName: the name carries the hugepages- prefix
IsHugePageResourceName(name) == name = hugepages1Gi

\* the test's machine, scaled: two nodes, each with memory and one 1Gi-class page
machineInfo ==
    [n \in {0, 1} |-> [Memory |-> 4096,
                       HugePages |-> <<[PageSize |-> 1, NumPages |-> 1]>>]]

\* the test's system-reserved memory: 1 GiB (scaled) of regular memory per node
reserved == [n \in {0, 1} |-> [r \in {ResourceMemory} |-> 1024]]

NumaNodes == DOMAIN machineInfo

\* getResourceSystemReserved of a policy whose systemReserved field is given
SystemReservedOf(systemReserved, nodeId, resourceName) ==
    IF nodeId \in DOMAIN systemReserved /\ resourceName \in DOMAIN systemReserved[nodeId]
    THEN systemReserved[nodeId][resourceName]
    ELSE 0

getResourceSystemReserved(nodeId, resourceName) ==
    SystemReservedOf(reserved, nodeId, resourceName)

RECURSIVE HugepagesTablesOf(_, _, _)
\* the loop over node.HugePages: the memory tables of the hugepage classes
HugepagesTablesOf(systemReserved, nodeId, hps) ==
    IF hps = <<>> THEN EmptyMap
    ELSE LET hugepage == hps[Len(hps)]
             hugepagesReserved == SystemReservedOf(systemReserved, nodeId, hugepages1Gi)
             totalHugepagesSize == hugepage.NumPages * hugepage.PageSize * 1024
             allocatable == totalHugepagesSize - hugepagesReserved
         IN  MapSet(HugepagesTablesOf(systemReserved, nodeId,
                                      SubSeq(hps, 1, Len(hps) - 1)),
                    hugepages1Gi,
                    [Allocatable |-> allocatable, Free |-> allocatable,
                     Reserved |-> 0, SystemReserved |-> hugepagesReserved,
                     TotalMemSize |-> totalHugepagesSize])

HugepagesTables(nodeId, hps) == HugepagesTablesOf(reserved, nodeId, hps)

\* getDefaultMachineState of a policy whose machineInfo and systemReserved
\* fields are given
DefaultMachineStateOf(info, systemReserved) ==
    [nodeId \in DOMAIN info |->
        LET node == info[nodeId]
            hugeTables == HugepagesTablesOf(systemReserved, nodeId, node.HugePages)
            nodeHugepages ==
                SumOver([r \in DOMAIN hugeTables |-> hugeTables[r].TotalMemSize],
                        DOMAIN hugeTables)
            memoryReserved == SystemReservedOf(systemReserved, nodeId, ResourceMemory)
            allocatable == node.Memory - memoryReserved - nodeHugepages
        IN  [NumberOfAssignments |-> 0,
             Nodes |-> <<nodeId>>,
             MemoryMap |-> MapSet(hugeTables, ResourceMemory,
                 [Allocatable |-> allocatable, Free |-> allocatable,
                  Reserved |-> 0, SystemReserved |-> memoryReserved,
                  TotalMemSize |-> node.Memory])]]

getDefaultMachineState == DefaultMachineStateOf(machineInfo, reserved)

Resources == {ResourceMemory, hugepages1Gi}

----------------------------------------------------------------------------
(* Bit masks (package bitmask) and topology hints *)

\* a nil BitMask interface value, distinct from every mask, the empty one included
NilMask == {-1}

\* BitMask.GetBits: the set bits in ascending order
GetBits(mask) == SortedSeq(mask)

\* BitMask.IsNarrowerThan: fewer bits, or as many and the lowest differing bit set
IsNarrowerThan(self, other) ==
    \/ Cardinality(self) < Cardinality(other)
    \/ /\ Cardinality(self) = Cardinality(other)
       /\ self # other
       /\ LET diff == (self \ other) \cup (other \ self)
              low == CHOOSE x \in diff : \A y \in diff : x <= y
          IN  low \in self

\* is mask a before mask b in the order bitmask.IterateBitMasks visits them:
\* by size, then by the ascending bit lists
VisitedBefore(a, b) ==
    \/ Cardinality(a) < Cardinality(b)
    \/ /\ Cardinality(a) = Cardinality(b)
       /\ a # b
       /\ LET diff == (a \ b) \cup (b \ a)
              low == CHOOSE x \in diff : \A y \in diff : x <= y
          IN  low \in a

RECURSIVE MasksInOrder(_)
MasksInOrder(S) ==
    IF S = {} THEN <<>>
    ELSE LET m == CHOOSE x \in S : \A y \in S \ {x} : VisitedBefore(x, y)
         IN  <<m>> \o MasksInOrder(S \ {m})

\* bitmask.IterateBitMasks(numaNodes, ...): every non-empty subset, once
IterateBitMasks(numaNodes) == MasksInOrder((SUBSET numaNodes) \ {{}})

\* the zero TopologyHint: what GetAffinity returns for an unknown container
NoHint == [NUMANodeAffinity |-> NilMask, Preferred |-> FALSE]

----------------------------------------------------------------------------
(* Pods.  A pod is [QOS, InitContainers, Containers, Requests]: the names of  *)
(* its init and app containers in order, and each container's               *)
(* Resources.Requests, a map from resource name to quantity.                *)

PodQOSGuaranteed == "Guaranteed"

\* v1qos.GetPodQOS
GetPodQOS(pod) == pod.QOS

\* append(pod.Spec.InitContainers, pod.Spec.Containers...)
AllContainersOf(pod) == pod.InitContainers \o pod.Containers

\* resource.Quantity.AsInt64: the value, when it is a whole number
AsInt64(quantity) == [value |-> quantity \div 1000, ok |-> quantity % 1000 = 0]

\* getRequestedResources: [err, res]; res maps the memory and hugepage
\* resources requested to their sizes in bytes
getRequestedResources(requests) ==
    LET kept == {r \in DOMAIN requests :
                    r = ResourceMemory \/ IsHugePageResourceName(r)}
    IN  IF \E r \in kept : ~AsInt64(requests[r]).ok
        THEN [err |-> TRUE, res |-> EmptyMap]
        ELSE [err |-> FALSE, res |-> [r \in kept |-> AsInt64(requests[r]).value]]

ContainerRequests(pod, containerName) == pod.Requests[containerName]

\* p.memoryToReuse[podUID]: nil when the pod has no entry
ReusableOf(reuse, podUID) == IF podUID \in DOMAIN reuse THEN reuse[podUID] ELSE <<>>

\* s.GetMemoryBlocks(podUID, containerName) != nil
HasBlocks(asg, podUID, containerName) == <<podUID, containerName>> \in DOMAIN asg

----------------------------------------------------------------------------
(* staticPolicy.calculateHints *)

RECURSIVE InsertSorted(_, _)
InsertSorted(s, x) ==
    IF s = <<>> THEN <<x>>
    ELSE IF x <= Head(s) THEN <<x>> \o s
    ELSE <<Head(s)>> \o InsertSorted(Tail(s), x)

RECURSIVE SortInts(_)
\* sort.Ints
SortInts(s) == IF s = <<>> THEN <<>> ELSE InsertSorted(SortInts(Tail(s)), Head(s))

areGroupsEqual(group1, group2) ==
    LET g1 == SortInts(group1)
        g2 == SortInts(group2)
    IN  /\ Len(g1) = Len(g2)
        /\ \A i \in 1..Len(g1) : g2[i] = g1[i]

RECURSIVE AdjustRequested(_, _, _)
\* the loop over the reusable blocks in calculateHints: the demand of a
\* requested type is lowered by a reusable block smaller than the request
AdjustRequested(requested, requestedResources, reusable) ==
    IF reusable = <<>> THEN requested
    ELSE LET resourceBlock == Head(reusable)
             next ==
                 IF /\ resourceBlock.Type \in DOMAIN requestedResources
                    /\ requestedResources[resourceBlock.Type] > resourceBlock.Size
                 THEN [requested EXCEPT ![resourceBlock.Type] =
                          requestedResources[resourceBlock.Type] - resourceBlock.Size]
                 ELSE requested
         IN  AdjustRequested(next, requestedResources, Tail(reusable))

\* every reusable block of a requested type lies inside the mask
ReusableInMask(mask, requestedResources, reusable) ==
    \A i \in 1..Len(reusable) :
        reusable[i].Type \in DOMAIN requestedResources =>
            \A j \in 1..Len(reusable[i].NUMAAffinity) :
                reusable[i].NUMAAffinity[j] \in mask

\* the group filters letting a node that is used alone into a larger mask
GroupsAllowMask_SingleNodeGroupAllowed(ms, mask) ==
    LET maskBits == GetBits(mask)
        singleNUMAHint == Len(maskBits) = 1
    IN  \A nodeID \in mask :
            (~singleNUMAHint /\ ms[nodeID].NumberOfAssignments > 0) =>
                areGroupsEqual(ms[nodeID].Nodes, maskBits)
                    \/ Len(ms[nodeID].Nodes) = 1

\* the group filters of the loop over the mask's nodes
GroupsAllowMask(ms, mask) ==
    LET maskBits == GetBits(mask)
        singleNUMAHint == Len(maskBits) = 1
    IN  \A nodeID \in mask :
            (~singleNUMAHint /\ ms[nodeID].NumberOfAssignments > 0) =>
                /\ Len(ms[nodeID].Nodes) # 1
                /\ areGroupsEqual(ms[nodeID].Nodes, maskBits)

TotalFreeSize(ms, mask, resourceName) ==
    SumOver([n \in mask |-> ms[n].MemoryMap[resourceName].Free], mask)

TotalAllocatableSize(ms, mask, resourceName) ==
    SumOver([n \in mask |-> ms[n].MemoryMap[resourceName].Allocatable], mask)

\* the callback with minAffinitySize updated after the check of the free
\* memory: a mask without enough free memory is not counted
MaskVerdictFor_CountsAfterFreeCheck(ms, requested, mask) ==
    IF ~GroupsAllowMask(ms, mask) THEN "skip"
    ELSE IF \E r \in DOMAIN requested :
                TotalAllocatableSize(ms, mask, r) < requested[r] THEN "skip"
    ELSE IF \E r \in DOMAIN requested :
                TotalFreeSize(ms, mask, r) < requested[r] THEN "skip"
    ELSE "emit"

\* the callback of calculateHints from the group filters on; requested is
\* the demand after the reusable memory was taken off
MaskVerdictFor(ms, requested, mask) ==
    IF ~GroupsAllowMask(ms, mask) THEN "skip"
    ELSE IF \E r \in DOMAIN requested :
                TotalAllocatableSize(ms, mask, r) < requested[r] THEN "skip"
    ELSE IF \E r \in DOMAIN requested :
                TotalFreeSize(ms, mask, r) < requested[r] THEN "counted"
    ELSE "emit"

\* what the callback of calculateHints does with one mask: "skip" (it returns
\* before minAffinitySize), "counted" (minAffinitySize is updated, no hint),
\* or "emit" (a hint is appended for every requested type)
MaskVerdict(ms, requestedResources, reusable, mask) ==
    IF Cardinality(mask) = 1 /\ \E n \in mask : Len(ms[n].Nodes) > 1 THEN "skip"
    ELSE IF ~ReusableInMask(mask, requestedResources, reusable) THEN "skip"
    ELSE MaskVerdictFor(ms, AdjustRequested(requestedResources, requestedResources,
                                            reusable), mask)

RECURSIVE MinAffinitySize(_, _, _, _, _)
\* minAffinitySize after the masks of the sequence were visited
MinAffinitySize(ms, requestedResources, reusable, masks, start) ==
    IF masks = <<>> THEN start
    ELSE LET mask == Head(masks)
             next == IF /\ MaskVerdict(ms, requestedResources, reusable, mask) # "skip"
                        /\ Cardinality(mask) < start
                     THEN Cardinality(mask) ELSE start
         IN  MinAffinitySize(ms, requestedResources, reusable, Tail(masks), next)

isHintPreferred(maskBits, minAffinitySize) == Len(maskBits) = minAffinitySize

\* the masks calculateHints appends a hint for, in the order of the iteration
EmittedMasks(ms, requestedResources, reusable) ==
    LET IsEmitted(mask) == MaskVerdict(ms, requestedResources, reusable, mask) = "emit"
    IN  SelectSeq(IterateBitMasks(DOMAIN ms), IsEmitted)

\* the hints of calculateHints once the masks are visited: every requested
\* type gets the same list
HintsFor(requestedResources, emitted, minAffinitySize) ==
    IF emitted = <<>> THEN EmptyMap
    ELSE [r \in DOMAIN requestedResources |->
            [i \in 1..Len(emitted) |->
                [NUMANodeAffinity |-> emitted[i],
                 Preferred |-> isHintPreferred(GetBits(emitted[i]),
                                               minAffinitySize)]]]

\* calculateHints: resource name -> list of hints (no key when nothing is emitted)
calculateHints(ms, requestedResources, reusable) ==
    HintsFor(requestedResources,
             EmittedMasks(ms, requestedResources, reusable),
             MinAffinitySize(ms, requestedResources, reusable,
                             IterateBitMasks(DOMAIN ms), Cardinality(DOMAIN ms)))

\* hints[resourceName] of a Go map: the nil list when the key is missing
HintsOf(hints, resourceName) ==
    IF resourceName \in DOMAIN hints THEN hints[resourceName] ELSE <<>>

RECURSIVE BestHintFrom(_, _)
\* the loop of findBestHint, bestHint being the best so far
BestHintFrom(bestHint, hints) ==
    IF hints = <<>> THEN bestHint
    ELSE LET hint == Head(hints)
             next ==
                 IF bestHint.NUMANodeAffinity = NilMask THEN hint
                 ELSE IF hint.Preferred /\ ~bestHint.Preferred THEN hint
                 ELSE IF /\ hint.Preferred = bestHint.Preferred
                         /\ IsNarrowerThan(hint.NUMANodeAffinity,
                                           bestHint.NUMANodeAffinity)
                      THEN hint
                 ELSE bestHint
         IN  BestHintFrom(next, Tail(hints))

findBestHint(hints) == BestHintFrom(NoHint, hints)

\* getDefaultHint once calculateHints has returned hints
DefaultHintOf(hints) ==
    IF Cardinality(DOMAIN hints) < 1
    THEN [err |-> TRUE, hint |-> NoHint]
    ELSE [err |-> FALSE, hint |-> findBestHint(HintsOf(hints, ResourceMemory))]

\* getDefaultHint: [err, hint]
getDefaultHint(ms, requestedResources, reusable) ==
    DefaultHintOf(calculateHints(ms, requestedResources, reusable))

isAffinitySatisfyRequest(ms, mask, requestedResources) ==
    \A r \in DOMAIN requestedResources :
        ~(TotalFreeSize(ms, mask, r) < requestedResources[r])

\* isHintInGroup, on sorted lists: hintIndex after the first i entries of group
RECURSIVE HintIndexAfter(_, _, _)
HintIndexAfter(hint, group, i) ==
    IF i = 0 THEN 0
    ELSE LET hintIndex == HintIndexAfter(hint, group, i - 1)
         IN  IF hintIndex < Len(hint) /\ group[i] = hint[hintIndex + 1]
             THEN hintIndex + 1 ELSE hintIndex

\* isHintInGroup returns true only from inside the loop, when, on entering an
\* iteration, every entry of hint was matched already
isHintInGroup(hintArg, groupArg) ==
    LET hint == SortInts(hintArg)
        group == SortInts(groupArg)
    IN  \E i \in 1..Len(group) : HintIndexAfter(hint, group, i - 1) = Len(hint)

\* the hints whose mask the mask to extend is in, as isHintInGroup has it
FilterHints(hints, mask) ==
    LET InGroup(hint) == isHintInGroup(GetBits(mask), GetBits(hint.NUMANodeAffinity))
    IN  SelectSeq(hints, InGroup)

\* extendTopologyManagerHint once the hints are filtered
ExtendedHintOf(filteredHints) ==
    IF Len(filteredHints) < 1
    THEN [err |-> TRUE, hint |-> NoHint]
    ELSE [err |-> FALSE, hint |-> findBestHint(filteredHints)]

\* extendTopologyManagerHint: [err, hint]
extendTopologyManagerHint(ms, requestedResources, mask) ==
    ExtendedHintOf(FilterHints(HintsOf(calculateHints(ms, requestedResources, <<>>),
                                       ResourceMemory), mask))

----------------------------------------------------------------------------
(* The state store (an external collaborator) keeps the machine state and   *)
(* the assignments by value: what it hands out and what it is given are     *)
(* copies.  st is the record [ms, asg, reuse] of the machine state, the     *)
(* assignments and the static policy's memoryToReuse.                       *)

\* the inner loop of updateMemoryToReuse for one block of an app container
SubtractReused(reusable, block) ==
    [id \in 1..Len(reusable) |->
        LET reusableBlock == reusable[id]
        IN  IF block.Type # reusableBlock.Type THEN reusableBlock
            ELSE IF reusableBlock.Size > block.Reused
                 THEN [reusableBlock EXCEPT !.Size = @ - block.Reused]
                 ELSE [reusableBlock EXCEPT !.Size = 0]]

RECURSIVE SubtractAllReused(_, _)
SubtractAllReused(reusable, blocks) ==
    IF blocks = <<>> THEN reusable
    ELSE SubtractAllReused(SubtractReused(reusable, Head(blocks)), Tail(blocks))

\* staticPolicy.updateMemoryToReuse: the new memoryToReuse
updateMemoryToReuse(reuse, pod, containerName, blocks) ==
    LET kept == [u \in (DOMAIN reuse) \cap {pod.UID} |-> reuse[u]]
    IN  IF containerName \in SeqToSet(pod.InitContainers)
        THEN MapSet(kept, pod.UID, blocks)
        ELSE IF pod.UID \in DOMAIN kept
             THEN MapSet(kept, pod.UID, SubtractAllReused(kept[pod.UID], blocks))
             ELSE kept

\* AbsoluteRequested without the loop over the reusable blocks
AbsoluteRequested_IgnoresReusable(requestedAbsolute, requestedResources, reusable) ==
    requestedAbsolute

RECURSIVE AbsoluteRequested(_, _, _)
\* the loop over the reusable blocks in Allocate ("requested memory - reusable")
AbsoluteRequested(requestedAbsolute, requestedResources, reusable) ==
    IF reusable = <<>> THEN requestedAbsolute
    ELSE LET resourceBlock == Head(reusable)
             t == resourceBlock.Type
             lowered ==
                 IF requestedResources[t] > resourceBlock.Size
                 THEN [requestedAbsolute EXCEPT ![t] =
                          requestedResources[t] - resourceBlock.Size]
                 ELSE requestedAbsolute
             next == IF t \notin DOMAIN requestedResources THEN requestedAbsolute
                     ELSE [lowered EXCEPT ![t] = 0]
         IN  AbsoluteRequested(next, requestedResources, Tail(reusable))

\* ReserveOnNode with the bytes added to reserved but not taken from free
ReserveOnNode_KeepsFree(ms, maskBits, nodeId, resourceName, taken) ==
    [ms EXCEPT
        ![nodeId].NumberOfAssignments = @ + 1,
        ![nodeId].Nodes = maskBits,
        ![nodeId].MemoryMap[resourceName].Reserved = @ + taken]

\* one pass of the loop over maskBits in Allocate: the node is counted, joins
\* the group, and taken bytes move from free to reserved
ReserveOnNode(ms, maskBits, nodeId, resourceName, taken) ==
    [ms EXCEPT
        ![nodeId].NumberOfAssignments = @ + 1,
        ![nodeId].Nodes = maskBits,
        ![nodeId].MemoryMap[resourceName].Reserved = @ + taken,
        ![nodeId].MemoryMap[resourceName].Free = @ - taken]

RECURSIVE ReserveOnNodes(_, _, _, _, _)
\* the loop over maskBits in Allocate for one resource, from the i-th node on
ReserveOnNodes(ms, maskBits, i, resourceName, requestedSize) ==
    IF i > Len(maskBits) THEN ms
    ELSE LET nodeId == maskBits[i]
             free == ms[nodeId].MemoryMap[resourceName].Free
             taken == IF requestedSize = 0 \/ free <= 0 THEN 0
                      ELSE IF free >= requestedSize THEN requestedSize
                      ELSE free
         IN  ReserveOnNodes(ReserveOnNode(ms, maskBits, nodeId, resourceName, taken),
                            maskBits, i + 1, resourceName, requestedSize - taken)

RECURSIVE ReserveAll(_, _, _, _)
\* the loop over requestedAbsolute in Allocate; order is the order in which
\* the Go map is ranged over
ReserveAll(ms, maskBits, requestedAbsolute, order) ==
    IF order = <<>> THEN ms
    ELSE ReserveAll(ReserveOnNodes(ms, maskBits, 1, Head(order),
                                   requestedAbsolute[Head(order)]),
                    maskBits, requestedAbsolute, Tail(order))

\* the blocks recorded with the requested size, the reused bytes included
ContainerBlocks_SizeRequested(maskBits, requestedResources, requestedAbsolute, order) ==
    [i \in 1..Len(order) |->
        [NUMAAffinity |-> maskBits,
         Size |-> requestedResources[order[i]],
         Type |-> order[i],
         Reused |-> requestedResources[order[i]] - requestedAbsolute[order[i]]]]

\* the blocks Allocate appends, one per requested resource
ContainerBlocks(maskBits, requestedResources, requestedAbsolute, order) ==
    [i \in 1..Len(order) |->
        [NUMAAffinity |-> maskBits,
         Size |-> requestedAbsolute[order[i]],
         Type |-> order[i],
         Reused |-> requestedResources[order[i]] - requestedAbsolute[order[i]]]]

\* the orders in which a Go map with these keys can be ranged over
RangeOrders(keys) ==
    {o \in [1..Cardinality(keys) -> keys] : SeqToSet(o) = keys}

ErrNone == "nil"

Returned(st, err) == [ms |-> st.ms, asg |-> st.asg, reuse |-> st.reuse, err |-> err]

\* the end of Allocate: the blocks are stored, memoryToReuse is updated
StoreBlocks(st, pod, containerName, ms, containerBlocks) ==
    [ms |-> ms,
     asg |-> MapSet(st.asg, <<pod.UID, containerName>>, containerBlocks),
     reuse |-> updateMemoryToReuse(st.reuse, pod, containerName, containerBlocks),
     err |-> ErrNone]

\* Allocate once the final mask is known
AllocateOnMask(st, pod, containerName, requestedResources, requestedAbsolute, maskBits, order) ==
    StoreBlocks(st, pod, containerName,
                ReserveAll(st.ms, maskBits, requestedAbsolute, order),
                ContainerBlocks(maskBits, requestedResources, requestedAbsolute,
                                order))

\* Allocate when bestHint does not satisfy the request: extended is what
\* extendTopologyManagerHint returned
AllocateExtended(st, pod, containerName, requestedResources, requestedAbsolute, bestHint, extended, order) ==
    IF extended.err
    THEN Returned(st, "failed to find NUMA nodes to extend the current topology hint")
    ELSE IF ~extended.hint.Preferred /\ bestHint.Preferred
    THEN Returned(st, "failed to find the extended preferred hint")
    ELSE AllocateOnMask(st, pod, containerName, requestedResources,
                        requestedAbsolute, GetBits(extended.hint.NUMANodeAffinity),
                        order)

\* Allocate from the check of the hint against the demand on
AllocateAbsolute(st, pod, containerName, requestedResources, requestedAbsolute, bestHint, order) ==
    IF isAffinitySatisfyRequest(st.ms, bestHint.NUMANodeAffinity, requestedAbsolute)
    THEN AllocateOnMask(st, pod, containerName, requestedResources,
                        requestedAbsolute, GetBits(bestHint.NUMANodeAffinity), order)
    ELSE AllocateExtended(st, pod, containerName, requestedResources,
                          requestedAbsolute, bestHint,
                          extendTopologyManagerHint(st.ms, requestedAbsolute,
                                                    bestHint.NUMANodeAffinity),
                          order)

\* Allocate from "requested memory - reusable" on: bestHint is the stored or
\* the default hint
AllocateWithHint(st, pod, containerName, requestedResources, bestHint, order) ==
    AllocateAbsolute(st, pod, containerName, requestedResources,
                     AbsoluteRequested(requestedResources, requestedResources,
                                       ReusableOf(st.reuse, pod.UID)),
                     bestHint, order)

\* AllocateDefault updating memoryToReuse before it looks for the default hint
AllocateDefault_UpdatesReuseFirst(st, pod, containerName, requestedResources, hint, default, order) ==
    IF default.err
    THEN [ms |-> st.ms, asg |-> st.asg,
          reuse |-> updateMemoryToReuse(st.reuse, pod, containerName, <<>>),
          err |-> "failed to get the default NUMA affinity"]
    ELSE IF ~default.hint.Preferred /\ hint.Preferred
    THEN Returned(st, "failed to find the default preferred hint")
    ELSE AllocateWithHint(st, pod, containerName, requestedResources,
                          default.hint, order)

\* Allocate when the store has no affinity for the container: default is
\* what getDefaultHint returned
AllocateDefault(st, pod, containerName, requestedResources, hint, default, order) ==
    IF default.err
    THEN Returned(st, "failed to get the default NUMA affinity")
    ELSE IF ~default.hint.Preferred /\ hint.Preferred
    THEN Returned(st, "failed to find the default preferred hint")
    ELSE AllocateWithHint(st, pod, containerName, requestedResources,
                          default.hint, order)

\* Allocate from the conversion of the requests on: requested is what
\* getRequestedResources returned
AllocateRequested(st, pod, containerName, requested, hint, order) ==
    IF requested.err
    THEN Returned(st, "failed to represent quantity as int64")
    ELSE IF hint.NUMANodeAffinity # NilMask
    THEN AllocateWithHint(st, pod, containerName, requested.res, hint, order)
    ELSE AllocateDefault(st, pod, containerName, requested.res, hint,
                         getDefaultHint(st.ms, requested.res,
                                        ReusableOf(st.reuse, pod.UID)),
                         order)

\* AllocateOp without the check for blocks already present
AllocateOp_NoPresentCheck(st, pod, containerName, hint, order) ==
    IF GetPodQOS(pod) # PodQOSGuaranteed THEN Returned(st, ErrNone)
    ELSE AllocateRequested(st, pod, containerName,
                           getRequestedResources(ContainerRequests(pod, containerName)),
                           hint, order)

\* AllocateOp without the check of the pod's QoS class
AllocateOp_NoQOSGate(st, pod, containerName, hint, order) ==
    IF HasBlocks(st.asg, pod.UID, containerName)
    THEN [ms |-> st.ms, asg |-> st.asg,
          reuse |-> updateMemoryToReuse(st.reuse, pod, containerName,
                                        st.asg[<<pod.UID, containerName>>]),
          err |-> ErrNone]
    ELSE AllocateRequested(st, pod, containerName,
                           getRequestedResources(ContainerRequests(pod, containerName)),
                           hint, order)

\* staticPolicy.Allocate.  hint is what p.affinity.GetAffinity returns and
\* order the order in which requestedAbsolute is ranged over.
\* The result is [ms, asg, reuse, err].
AllocateOp(st, pod, containerName, hint, order) ==
    IF GetPodQOS(pod) # PodQOSGuaranteed THEN Returned(st, ErrNone)
    ELSE IF HasBlocks(st.asg, pod.UID, containerName)
    THEN [ms |-> st.ms, asg |-> st.asg,
          reuse |-> updateMemoryToReuse(st.reuse, pod, containerName,
                                        st.asg[<<pod.UID, containerName>>]),
          err |-> ErrNone]
    ELSE AllocateRequested(st, pod, containerName,
                           getRequestedResources(ContainerRequests(pod, containerName)),
                           hint, order)

RECURSIVE ReleaseOnNodes(_, _, _, _, _)
\* the loop over b.NUMAAffinity in RemoveContainer, from the i-th node on
ReleaseOnNodes(ms, b, i, resourceName, releasedSize) ==
    IF i > Len(b.NUMAAffinity) THEN ms
    ELSE LET nodeId == b.NUMAAffinity[i]
             count == ms[nodeId].NumberOfAssignments - 1
             resv == ms[nodeId].MemoryMap[resourceName].Reserved
             given == IF releasedSize = 0 \/ resv = 0 THEN 0
                      ELSE IF resv < releasedSize THEN resv
                      ELSE releasedSize
             next == [ms EXCEPT
                        ![nodeId].NumberOfAssignments = count,
                        ![nodeId].Nodes = IF count = 0 THEN <<nodeId>> ELSE @,
                        ![nodeId].MemoryMap[resourceName].Free = @ + given,
                        ![nodeId].MemoryMap[resourceName].Reserved = @ - given]
         IN  ReleaseOnNodes(next, b, i + 1, resourceName, releasedSize - given)

RECURSIVE ReleaseAll(_, _)
ReleaseAll(ms, blocks) ==
    IF blocks = <<>> THEN ms
    ELSE LET b == Head(blocks)
         IN  ReleaseAll(ReleaseOnNodes(ms, b, 1, b.Type, b.Size), Tail(blocks))

\* RemoveContainerOp reporting an error for a container without blocks
RemoveContainerOp_ErrorWhenAbsent(st, podUID, containerName) ==
    IF ~HasBlocks(st.asg, podUID, containerName)
    THEN Returned(st, "container not found")
    ELSE [ms |-> ReleaseAll(st.ms, st.asg[<<podUID, containerName>>]),
          asg |-> MapDel(st.asg, <<podUID, containerName>>),
          reuse |-> st.reuse,
          err |-> ErrNone]

\* staticPolicy.RemoveContainer: [ms, asg, reuse, err]
RemoveContainerOp(st, podUID, containerName) ==
    IF ~HasBlocks(st.asg, podUID, containerName) THEN Returned(st, ErrNone)
    ELSE [ms |-> ReleaseAll(st.ms, st.asg[<<podUID, containerName>>]),
          asg |-> MapDel(st.asg, <<podUID, containerName>>),
          reuse |-> st.reuse,
          err |-> ErrNone]

----------------------------------------------------------------------------
(* Hints of the static policy *)

\* regenerateHints: the nil map is the map without keys
regenerateHints(ctnBlocks, reqRsrc) ==
    IF Len(ctnBlocks) # Cardinality(DOMAIN reqRsrc) THEN EmptyMap
    ELSE IF \E i \in 1..Len(ctnBlocks) :
                \/ ctnBlocks[i].Type \notin DOMAIN reqRsrc
                \/ ctnBlocks[i].Size # reqRsrc[ctnBlocks[i].Type]
         THEN EmptyMap
    ELSE [r \in DOMAIN reqRsrc |->
            LET OfType(b) == b.Type = r
                mine == SelectSeq(ctnBlocks, OfType)
            IN  [i \in 1..Len(mine) |->
                    [NUMANodeAffinity |-> SeqToSet(mine[i].NUMAAffinity),
                     Preferred |-> TRUE]]]

\* staticPolicy.GetTopologyHints
GetTopologyHintsOp(st, pod, containerName) ==
    LET requested == getRequestedResources(ContainerRequests(pod, containerName))
    IN  IF GetPodQOS(pod) # PodQOSGuaranteed THEN EmptyMap
        ELSE IF requested.err THEN EmptyMap
        ELSE IF HasBlocks(st.asg, pod.UID, containerName)
        THEN regenerateHints(st.asg[<<pod.UID, containerName>>], requested.res)
        ELSE calculateHints(st.ms, requested.res, ReusableOf(st.reuse, pod.UID))

RECURSIVE MaxOfInitContainers(_, _)
\* the loop over pod.Spec.InitContainers in getPodRequestedResources:
\* [err, res], res the largest request per resource
MaxOfInitContainers(pod, names) ==
    IF names = <<>> THEN [err |-> FALSE, res |-> EmptyMap]
    ELSE LET before == MaxOfInitContainers(pod, SubSeq(names, 1, Len(names) - 1))
             reqRsrcs == getRequestedResources(ContainerRequests(pod, names[Len(names)]))
         IN  IF before.err \/ reqRsrcs.err THEN [err |-> TRUE, res |-> EmptyMap]
             ELSE [err |-> FALSE,
                   res |-> [r \in (DOMAIN before.res) \cup (DOMAIN reqRsrcs.res) |->
                       LET old == IF r \in DOMAIN before.res THEN before.res[r] ELSE 0
                       IN  IF r \in DOMAIN reqRsrcs.res /\ reqRsrcs.res[r] > old
                           THEN reqRsrcs.res[r] ELSE old]]

RECURSIVE SumOfAppContainers(_, _)
\* the loop over pod.Spec.Containers: [err, res], res the sum per resource
SumOfAppContainers(pod, names) ==
    IF names = <<>> THEN [err |-> FALSE, res |-> EmptyMap]
    ELSE LET before == SumOfAppContainers(pod, SubSeq(names, 1, Len(names) - 1))
             reqRsrcs == getRequestedResources(ContainerRequests(pod, names[Len(names)]))
         IN  IF before.err \/ reqRsrcs.err THEN [err |-> TRUE, res |-> EmptyMap]
             ELSE [err |-> FALSE,
                   res |-> [r \in (DOMAIN before.res) \cup (DOMAIN reqRsrcs.res) |->
                       (IF r \in DOMAIN before.res THEN before.res[r] ELSE 0)
                       + (IF r \in DOMAIN reqRsrcs.res THEN reqRsrcs.res[r] ELSE 0)]]

\* getPodRequestedResources: [err, res]
getPodRequestedResources(pod) ==
    LET byInit == MaxOfInitContainers(pod, pod.InitContainers)
        byApp == SumOfAppContainers(pod, pod.Containers)
    IN  IF byInit.err \/ byApp.err THEN [err |-> TRUE, res |-> EmptyMap]
        ELSE [err |-> FALSE,
              res |-> [r \in DOMAIN byApp.res |->
                  IF r \in DOMAIN byInit.res /\ byInit.res[r] > byApp.res[r]
                  THEN byInit.res[r] ELSE byApp.res[r]]]

\* staticPolicy.GetPodTopologyHints
GetPodTopologyHintsOp(st, pod) ==
    LET reqRsrcs == getPodRequestedResources(pod)
        all == AllContainersOf(pod)
        WithBlocks(name) == HasBlocks(st.asg, pod.UID, name)
        present == SelectSeq(all, WithBlocks)
    IN  IF GetPodQOS(pod) # PodQOSGuaranteed THEN EmptyMap
        ELSE IF reqRsrcs.err THEN EmptyMap
        ELSE IF present # <<>>
        THEN regenerateHints(st.asg[<<pod.UID, present[1]>>], reqRsrcs.res)
        ELSE calculateHints(st.ms, reqRsrcs.res, <<>>)

----------------------------------------------------------------------------
(* The policy's merge over all hint providers.  The other providers (CPU,   *)
(* devices) are outside this model and their hints are free; what Merge     *)
(* can return is fixed by the rules of the merge: the merged affinity is    *)
(* the intersection of one hint per provider and resource, so it lies       *)
(* inside a hint of the static policy for every resource it gave hints      *)
(* for, and it is preferred only if that hint is.                           *)

PolicyNone == "none"
PolicyBestEffort == "best-effort"
PolicyRestricted == "restricted"
PolicySingleNumaNode == "single-numa-node"

\* the results [hint, admit] the policy's Merge can give when the static
\* policy's hints are memHints
MergeOutcomes(policy, memHints) ==
    LET masks == (SUBSET NumaNodes) \ {{}}
        Inside(a, pr) ==
            \A r \in DOMAIN memHints :
                \E i \in 1..Len(memHints[r]) :
                    /\ a \subseteq memHints[r][i].NUMANodeAffinity
                    /\ pr => memHints[r][i].Preferred
        Verdict(a, pr, ad) ==
            CASE policy = PolicyBestEffort -> TRUE
              [] policy = PolicyRestricted -> ad => pr
              [] policy = PolicySingleNumaNode -> ad => (pr /\ Cardinality(a) = 1)
              [] OTHER -> ad
    IN  {[hint |-> [NUMANodeAffinity |-> a, Preferred |-> pr], admit |-> ad] :
            <<a, pr, ad>> \in
                {x \in masks \X BOOLEAN \X BOOLEAN :
                    Inside(x[1], x[2]) /\ Verdict(x[1], x[2], x[3])}}
        \cup {[hint |-> NoHint, admit |-> ad] : ad \in BOOLEAN}

----------------------------------------------------------------------------
(* The pods of the model *)

\* a request of 1000m CPU and of the given memory and hugepages quantities
\* (no hugepages request when the quantity is 0)
Requests(memory, hugepages) ==
    IF hugepages = 0
    THEN [r \in {ResourceCPU, ResourceMemory} |->
            IF r = ResourceCPU THEN 1000 ELSE memory]
    ELSE [r \in {ResourceCPU, ResourceMemory, hugepages1Gi} |->
            IF r = ResourceCPU THEN 1000
            ELSE IF r = ResourceMemory THEN memory ELSE hugepages]

\* the memory quantities requested: whole multiples of 1024 bytes
MemoryQuantities == {k * 1024 * 1000 : k \in 1..MaxRequest}

\* the hugepages quantities requested: none, or one page
HugepagesQuantities == {0, 1024 * 1000}

\* a pod with at most one init container "init1" and the app container "app1"
Pod(uid, qos, initRequests, appRequests) ==
    [UID |-> uid, QOS |-> qos,
     InitContainers |-> IF initRequests = <<>> THEN <<>> ELSE <<"init1">>,
     Containers |-> <<"app1">>,
     Requests |-> IF initRequests = <<>>
                  THEN [c \in {"app1"} |-> appRequests]
                  ELSE [c \in {"init1", "app1"} |->
                           IF c = "init1" THEN initRequests[1] ELSE appRequests]]

\* two pods.  pod1 is Guaranteed and has an init and an app container, which
\* request memory and may request hugepages; the app container's memory
\* quantity may be fractional.  pod2 has one app container and is either
\* BestEffort or Guaranteed.
PodSets ==
    {[u \in {"pod1", "pod2"} |->
        IF u = "pod1"
        THEN Pod(u, PodQOSGuaranteed, <<Requests(mi, hi)>>, Requests(ma, ha))
        ELSE Pod(u, "BestEffort", <<>>, Requests(1024 * 1000, 0))] :
        mi \in MemoryQuantities, hi \in HugepagesQuantities,
        ma \in MemoryQuantities \cup {1500}, ha \in HugepagesQuantities}
    \cup
    {[u \in {"pod1", "pod2"} |->
        IF u = "pod1"
        THEN Pod(u, PodQOSGuaranteed, <<Requests(1024 * 1000, 0)>>, Requests(ma, 0))
        ELSE Pod(u, PodQOSGuaranteed, <<>>, Requests(1024 * 1000, 0))] :
        ma \in MemoryQuantities}

ContainerNames(pod) == SeqToSet(AllContainersOf(pod))

----------------------------------------------------------------------------
(* The static policy called directly, as the manager does.  The affinity   *)
(* store is the scope: the hint it returns for a container is the one the  *)
(* scope merged for it, or the zero hint.                                  *)

State == [ms |-> machineState, asg |-> assignments, reuse |-> memoryToReuse]

\* no caller of the scope is inside a call
NoCalls == EmptyMap

\* the policy is called directly: there is no manager
NoManager == EmptyMap

\* no Admit call is in progress or has returned; done holds the pods Admit
\* was called for
Idle == [pod |-> "", next |-> 0, result |-> "", log |-> <<>>, pre |-> <<>>,
         done |-> {}]

Init ==
    /\ pods \in PodSets
    /\ policyName = PolicyBestEffort
    /\ machineState = getDefaultMachineState
    /\ assignments = EmptyMap
    /\ memoryToReuse = EmptyMap
    /\ podTopologyHints = EmptyMap
    /\ podMap = EmptyMap
    /\ admit = Idle
    /\ mutex = ""
    /\ manager = NoManager
    /\ pc = NoCalls
    /\ last = [op |-> "", pod |-> "", container |-> "", present |-> FALSE,
               err |-> ErrNone]

\* the hints GetAffinity can return for the container in this state
StoredHints(podUID, containerName) ==
    {o.hint : o \in {x \in MergeOutcomes(policyName,
                        GetTopologyHintsOp(State, pods[podUID], containerName)) :
                        x.admit}}

\* does Allocate get as far as using the hint it read from the store
UsesAffinity(st, pod, containerName) ==
    /\ GetPodQOS(pod) = PodQOSGuaranteed
    /\ ~HasBlocks(st.asg, pod.UID, containerName)
    /\ ~getRequestedResources(ContainerRequests(pod, containerName)).err

Allocate(podUID, containerName) ==
    \E hint \in IF UsesAffinity(State, pods[podUID], containerName)
                THEN StoredHints(podUID, containerName) ELSE {NoHint} :
    \E order \in IF UsesAffinity(State, pods[podUID], containerName)
                 THEN RangeOrders(DOMAIN getRequestedResources(
                          ContainerRequests(pods[podUID], containerName)).res)
                 ELSE {<<>>} :
    \E r \in {AllocateOp(State, pods[podUID], containerName, hint, order)} :
        /\ machineState' = r.ms
        /\ assignments' = r.asg
        /\ memoryToReuse' = r.reuse
        /\ last' = [op |-> "Allocate", pod |-> podUID, container |-> containerName,
                    present |-> HasBlocks(assignments, podUID, containerName),
                    err |-> r.err]
        /\ UNCHANGED <<pods, manager, policyName, podTopologyHints, podMap, admit, mutex, pc>>

RemoveContainer(podUID, containerName) ==
    \E r \in {RemoveContainerOp(State, podUID, containerName)} :
        /\ machineState' = r.ms
        /\ assignments' = r.asg
        /\ memoryToReuse' = r.reuse
        /\ last' = [op |-> "RemoveContainer", pod |-> podUID,
                    container |-> containerName,
                    present |-> HasBlocks(assignments, podUID, containerName),
                    err |-> r.err]
        /\ UNCHANGED <<pods, manager, policyName, podTopologyHints, podMap, admit, mutex, pc>>

Next ==
    \/ \E podUID \in DOMAIN pods :
           \E containerName \in ContainerNames(pods[podUID]) :
               Allocate(podUID, containerName)
    \/ \E podUID \in DOMAIN pods :
           \E containerName \in ContainerNames(pods[podUID]) :
               RemoveContainer(podUID, containerName)

Spec == Init /\ [][Next]_vars

----------------------------------------------------------------------------
(* The container scope: Admit runs the policy's merge and the providers'    *)
(* Allocate for each container of the pod in turn.  The kubelet calls Admit *)
(* once for a pod; the model takes one container of the loop per step and   *)
(* lets nothing else run until the call has returned.                       *)

MemoryManager == "memorymanager"

\* scope.hintProviders: the memory manager between two providers that are
\* outside this model, whose Allocate can fail
hintProviders == <<"cpumanager", MemoryManager, "devicemanager">>

ResultAdmit == "Admit"
TopologyAffinityError == "TopologyAffinityError"
UnexpectedAdmissionError == "UnexpectedAdmissionError"

\* scope.GetAffinity: the zero hint when nothing is stored
GetAffinity(hints, podUID, containerName) ==
    IF podUID \in DOMAIN hints /\ containerName \in DOMAIN hints[podUID]
    THEN hints[podUID][containerName]
    ELSE NoHint

\* the hint is not written to the table before the providers are called
RecordHint_NotWritten(hints, podUID, containerName, bestHint) == hints

\* (s.podTopologyHints)[pod.UID][container.Name] = bestHint
RecordHint(hints, podUID, containerName, bestHint) ==
    MapSet(hints, podUID,
           MapSet(IF podUID \in DOMAIN hints THEN hints[podUID] ELSE EmptyMap,
                  containerName, bestHint))

\* provider.Allocate(pod, container) of the provider at position i:
\* [ms, asg, reuse, err].  failing is the provider outside the model whose
\* Allocate fails (0: none); the memory manager's Allocate is the static
\* policy's, which reads its affinity from the scope.
ProviderAllocate(st, hints, pod, containerName, i, failing, order) ==
    IF hintProviders[i] = MemoryManager
    THEN AllocateOp(st, pod, containerName,
                    GetAffinity(hints, pod.UID, containerName), order)
    ELSE Returned(st, IF i = failing THEN "allocate failed" ELSE ErrNone)

\* the entry of the call log for the Allocate of provider i that returned r
AllocateEvent(containerName, i, r) ==
    [kind |-> "Allocate", provider |-> hintProviders[i],
     container |-> containerName, ok |-> r.err = ErrNone]

RECURSIVE ScopeAllocateAlignedResources(_, _, _, _, _, _, _, _)

\* AllocateAlignedResourcesFrom that goes on to the next provider after an
\* error
AllocateAlignedResourcesFrom_GoesOn(r, hints, pod, containerName, i, failing, order, log) ==
    ScopeAllocateAlignedResources(
        [ms |-> r.ms, asg |-> r.asg, reuse |-> r.reuse], hints, pod,
        containerName, i + 1, failing, order,
        Append(log, AllocateEvent(containerName, i, r)))

\* the body of the loop of scope.allocateAlignedResources once provider i has
\* returned r: return the error, or go on to the next provider
AllocateAlignedResourcesFrom(r, hints, pod, containerName, i, failing, order, log) ==
    IF r.err # ErrNone
    THEN [st |-> [ms |-> r.ms, asg |-> r.asg, reuse |-> r.reuse],
          err |-> r.err,
          log |-> Append(log, AllocateEvent(containerName, i, r))]
    ELSE ScopeAllocateAlignedResources(
             [ms |-> r.ms, asg |-> r.asg, reuse |-> r.reuse], hints, pod,
             containerName, i + 1, failing, order,
             Append(log, AllocateEvent(containerName, i, r)))

\* scope.allocateAlignedResources from provider i on: [st, err, log]
ScopeAllocateAlignedResources(st, hints, pod, containerName, i, failing, order, log) ==
    IF i > Len(hintProviders) THEN [st |-> st, err |-> ErrNone, log |-> log]
    ELSE AllocateAlignedResourcesFrom(
             ProviderAllocate(st, hints, pod, containerName, i, failing, order),
             hints, pod, containerName, i, failing, order, log)

\* the providers outside the model, by position, and 0 for none of them
FailingProviders ==
    {0} \cup {i \in 1..Len(hintProviders) : hintProviders[i] # MemoryManager}

\* the orders in which Allocate can range over the container's resources
AllocateOrders(st, pod, containerName) ==
    IF UsesAffinity(st, pod, containerName)
    THEN RangeOrders(DOMAIN getRequestedResources(
             ContainerRequests(pod, containerName)).res)
    ELSE {<<>>}

\* one pass of the loop of containerScope.Admit (of scope.admitPolicyNone when
\* the policy is none) for the container at position admit.next of the pod
\* admit.pod, from the record a of the call
AdmitContainer(a) ==
    LET pod == pods[a.pod]
        containerName == AllContainersOf(pod)[a.next]
        isLast == a.next = Len(AllContainersOf(pod))
        Finish(log, err) ==
            [a EXCEPT !.log = log,
                      !.next = IF err = "" /\ ~isLast THEN a.next + 1 ELSE a.next,
                      !.result = IF err # "" THEN err
                                 ELSE IF isLast THEN ResultAdmit ELSE ""]
    IN  IF policyName = PolicyNone
        THEN \E failing \in FailingProviders :
             \E order \in AllocateOrders(State, pod, containerName) :
             \E r \in {ScopeAllocateAlignedResources(State, podTopologyHints, pod,
                           containerName, 1, failing, order, a.log)} :
                 /\ machineState' = r.st.ms
                 /\ assignments' = r.st.asg
                 /\ memoryToReuse' = r.st.reuse
                 /\ admit' = Finish(r.log, IF r.err # ErrNone
                                           THEN UnexpectedAdmissionError ELSE "")
                 /\ UNCHANGED podTopologyHints
        ELSE \E o \in MergeOutcomes(policyName,
                          GetTopologyHintsOp(State, pod, containerName)) :
             LET merged == Append(a.log, [kind |-> "Merge", provider |-> "",
                                          container |-> containerName,
                                          ok |-> o.admit])
                 hints == RecordHint(podTopologyHints, a.pod, containerName, o.hint)
                 recorded == Append(merged, [kind |-> "Hint", provider |-> "",
                                             container |-> containerName,
                                             ok |-> TRUE, hint |-> o.hint])
             IN  IF ~o.admit
                 THEN /\ admit' = Finish(merged, TopologyAffinityError)
                      /\ UNCHANGED <<machineState, assignments, memoryToReuse,
                                     podTopologyHints>>
                 ELSE \E failing \in FailingProviders :
                      \E order \in AllocateOrders(State, pod, containerName) :
                      \E r \in {ScopeAllocateAlignedResources(State, hints, pod,
                                    containerName, 1, failing, order, recorded)} :
                          /\ podTopologyHints' = hints
                          /\ machineState' = r.st.ms
                          /\ assignments' = r.st.asg
                          /\ memoryToReuse' = r.st.reuse
                          /\ admit' = Finish(r.log,
                                             IF r.err # ErrNone
                                             THEN UnexpectedAdmissionError ELSE "")

AdmitInProgress == admit.pod # "" /\ admit.result = ""

\* containerScope.Admit is called for a pod: the first container
Admit(podUID) ==
    /\ ~AdmitInProgress
    /\ podUID \notin admit.done
    /\ AdmitContainer([pod |-> podUID, next |-> 1, result |-> "", log |-> <<>>,
                       pre |-> [ms |-> machineState, asg |-> assignments,
                                hints |-> podTopologyHints],
                       done |-> admit.done \cup {podUID}])
    /\ UNCHANGED <<pods, manager, policyName, podMap, last, mutex, pc>>

\* containerScope.Admit goes through the loop again: the next container
AdmitNextContainer ==
    /\ AdmitInProgress
    /\ AdmitContainer(admit)
    /\ UNCHANGED <<pods, manager, policyName, podMap, last, mutex, pc>>

\* staticPolicy.RemoveContainer for a container, between two Admit calls
RemoveAdmittedContainer(podUID, containerName) ==
    /\ ~AdmitInProgress
    /\ \E r \in {RemoveContainerOp(State, podUID, containerName)} :
        /\ machineState' = r.ms
        /\ assignments' = r.asg
        /\ memoryToReuse' = r.reuse
        /\ last' = [op |-> "RemoveContainer", pod |-> podUID,
                    container |-> containerName,
                    present |-> HasBlocks(assignments, podUID, containerName),
                    err |-> r.err]
        /\ admit' = [Idle EXCEPT !.done = admit.done]
        /\ UNCHANGED <<pods, manager, policyName, podTopologyHints, podMap, mutex, pc>>

\* a Guaranteed pod with an init and an app container, and a Guaranteed pod
\* with one container
ScopePodSets ==
    {[p \in {"pod1", "pod2"} |->
        IF p = "pod1"
        THEN Pod("pod1", PodQOSGuaranteed, <<Requests(mi, 0)>>,
                 Requests(2 * 1024 * 1000, 0))
        ELSE Pod("pod2", PodQOSGuaranteed, <<>>, Requests(1024 * 1000, 0))] :
        mi \in MemoryQuantities}

InitScope ==
    /\ pods \in ScopePodSets
    /\ policyName \in {PolicyNone, PolicyBestEffort, PolicyRestricted,
                       PolicySingleNumaNode}
    /\ machineState = getDefaultMachineState
    /\ assignments = EmptyMap
    /\ memoryToReuse = EmptyMap
    /\ podTopologyHints = EmptyMap
    /\ podMap = EmptyMap
    /\ admit = Idle
    /\ mutex = ""
    /\ manager = NoManager
    /\ pc = NoCalls
    /\ last = [op |-> "", pod |-> "", container |-> "", present |-> FALSE,
               err |-> ErrNone]

NextScope ==
    \/ \E podUID \in DOMAIN pods : Admit(podUID)
    \/ AdmitNextContainer
    \/ \E podUID \in DOMAIN pods :
           \E containerName \in ContainerNames(pods[podUID]) :
               RemoveAdmittedContainer(podUID, containerName)

SpecScope == InitScope /\ [][NextScope]_vars


----------------------------------------------------------------------------
(* Properties of the static policy, checked under Spec *)

IsGuaranteed(podUID) == GetPodQOS(pods[podUID]) = PodQOSGuaranteed

\* the sizes requested by the container the last call was made for
LastRequested == getRequestedResources(
                     ContainerRequests(pods[last.pod], last.container)).res

\* the last call was an Allocate that created the container's blocks
LastAllocateCreated ==
    /\ last.op = "Allocate"
    /\ last.err = ErrNone
    /\ ~last.present
    /\ HasBlocks(assignments, last.pod, last.container)

TotalReserved(ms, resourceName) ==
    SumOver([n \in DOMAIN ms |-> ms[n].MemoryMap[resourceName].Reserved], DOMAIN ms)

\* C1: for every node and resource class, free + reserved = allocatable, and
\* no value is negative, in every state reached by Allocate and
\* RemoveContainer calls.
C1_Conservation ==
    \A n \in DOMAIN machineState :
        \A r \in DOMAIN machineState[n].MemoryMap :
            LET t == machineState[n].MemoryMap[r]
            IN  /\ t.Free + t.Reserved = t.Allocatable
                /\ t.Free >= 0 /\ t.Reserved >= 0 /\ t.Allocatable >= 0

\* a container was removed while memory is still reserved on both nodes
C1_Witness ==
    /\ last.op = "RemoveContainer" /\ last.present
    /\ \A n \in DOMAIN machineState :
           machineState[n].MemoryMap[ResourceMemory].Reserved > 0

\* every hint the affinity store can hold
AllHints ==
    {NoHint} \cup {[NUMANodeAffinity |-> a, Preferred |-> pr] :
                      a \in (SUBSET NumaNodes) \ {{}}, pr \in BOOLEAN}

\* the hints the static policy itself gives for every resource the container
\* requests
PolicyHints(podUID, containerName) ==
    LET h == GetTopologyHintsOp(State, pods[podUID], containerName)
    IN  {x \in AllHints :
            /\ DOMAIN h # {}
            /\ \A r \in DOMAIN h : \E i \in 1..Len(h[r]) : h[r][i] = x}

\* C3: in any reachable state, an Allocate that creates the blocks of a
\* container, followed at once by RemoveContainer for that container, gives
\* back the machine state from before the Allocate, field by field; stated
\* for the affinities that are hints of the static policy itself.
C3_RoundTrip ==
    \A podUID \in DOMAIN pods :
        \A containerName \in ContainerNames(pods[podUID]) :
            UsesAffinity(State, pods[podUID], containerName) =>
                \A hint \in PolicyHints(podUID, containerName) :
                \A order \in RangeOrders(DOMAIN getRequestedResources(
                                 ContainerRequests(pods[podUID], containerName)).res) :
                    LET a == AllocateOp(State, pods[podUID], containerName, hint, order)
                        r == RemoveContainerOp([ms |-> a.ms, asg |-> a.asg,
                                                reuse |-> a.reuse],
                                               podUID, containerName)
                    IN  (a.err = ErrNone
                            /\ HasBlocks(a.asg, podUID, containerName))
                        => r.ms = machineState

\* C4: an Allocate for a container that has blocks returns success and
\* leaves the machine state and the assignments as they are.
C4_AllocateIdempotent ==
    [][(last'.op = "Allocate" /\ HasBlocks(assignments, last'.pod, last'.container))
        => /\ last'.err = ErrNone
           /\ machineState' = machineState
           /\ assignments' = assignments]_vars

\* the last call was an Allocate for a container that had blocks
C4_Witness ==
    /\ last.op = "Allocate" /\ last.present
    /\ HasBlocks(assignments, last.pod, last.container)

\* C5: a RemoveContainer for a container without blocks returns success and
\* leaves the machine state and the assignments as they are.
C5_RemoveIdempotent ==
    [][(last'.op = "RemoveContainer"
            /\ ~HasBlocks(assignments, last'.pod, last'.container))
        => /\ last'.err = ErrNone
           /\ machineState' = machineState
           /\ assignments' = assignments]_vars

\* a container was removed, and RemoveContainer was called for it again
C5_Witness ==
    /\ last.op = "RemoveContainer" /\ ~last.present
    /\ IsGuaranteed(last.pod)
    /\ \E n \in DOMAIN machineState :
           machineState[n].MemoryMap[ResourceMemory].Reserved > 0

\* C6: for a pod that is not Guaranteed, GetTopologyHints and
\* GetPodTopologyHints return no hints, and an Allocate returns success and
\* changes neither the machine state nor the assignments nor memoryToReuse;
\* no call for such a pod changes the machine state.
C6_QOSGate ==
    /\ [](\A podUID \in DOMAIN pods :
            ~IsGuaranteed(podUID) =>
                /\ GetPodTopologyHintsOp(State, pods[podUID]) = EmptyMap
                /\ \A containerName \in ContainerNames(pods[podUID]) :
                       GetTopologyHintsOp(State, pods[podUID], containerName)
                           = EmptyMap)
    /\ [][(last'.op # "" /\ ~IsGuaranteed(last'.pod))
            => /\ machineState' = machineState
               /\ last'.op = "Allocate" =>
                      /\ last'.err = ErrNone
                      /\ assignments' = assignments
                      /\ memoryToReuse' = memoryToReuse]_vars

\* Allocate was called for a pod that is not Guaranteed while a Guaranteed
\* pod holds memory
C6_Witness ==
    /\ last.op = "Allocate" /\ ~IsGuaranteed(last.pod)
    /\ \E n \in DOMAIN machineState :
           machineState[n].MemoryMap[ResourceMemory].Reserved > 0

\* the block of the given type among the blocks
BlockOfType(blocks, t) == blocks[CHOOSE i \in 1..Len(blocks) : blocks[i].Type = t]

\* the step is an Allocate that creates the blocks of the container it names
AllocateCreates ==
    /\ last'.op = "Allocate"
    /\ last'.err = ErrNone
    /\ ~HasBlocks(assignments, last'.pod, last'.container)
    /\ HasBlocks(assignments', last'.pod, last'.container)

\* C9: when a container requests R bytes of a type and the pod's reusable
\* block of that type has size P < R, Allocate records a block with
\* size R - P and reused P, and moves R - P bytes from free to reserved.
C9_ReuseBelowRequest ==
    [][AllocateCreates =>
        LET requested == getRequestedResources(
                ContainerRequests(pods[last'.pod], last'.container)).res
            reusable == ReusableOf(memoryToReuse, last'.pod)
            blocks == assignments'[<<last'.pod, last'.container>>]
        IN  \A i \in 1..Len(reusable) :
                LET t == reusable[i].Type
                IN  (t \in DOMAIN requested /\ requested[t] > reusable[i].Size) =>
                        /\ BlockOfType(blocks, t).Size = requested[t] - reusable[i].Size
                        /\ BlockOfType(blocks, t).Reused = reusable[i].Size
                        /\ TotalReserved(machineState', t)
                               = TotalReserved(machineState, t)
                                     + requested[t] - reusable[i].Size]_vars

\* C10: when an app container's request for a type is at most the size of the
\* pod's reusable block of that type, Allocate moves no bytes of that type on
\* any node and records a block with size 0 and reused equal to the request.
C10_ReuseCoversRequest ==
    [][(AllocateCreates
            /\ last'.container \in SeqToSet(pods[last'.pod].Containers)) =>
        LET requested == getRequestedResources(
                ContainerRequests(pods[last'.pod], last'.container)).res
            reusable == ReusableOf(memoryToReuse, last'.pod)
            blocks == assignments'[<<last'.pod, last'.container>>]
        IN  \A i \in 1..Len(reusable) :
                LET t == reusable[i].Type
                IN  (t \in DOMAIN requested /\ requested[t] <= reusable[i].Size) =>
                        /\ BlockOfType(blocks, t).Size = 0
                        /\ BlockOfType(blocks, t).Reused = requested[t]
                        /\ \A n \in DOMAIN machineState :
                               machineState'[n].MemoryMap[t]
                                   = machineState[n].MemoryMap[t]]_vars

\* an app container was allocated out of a reusable block larger than its
\* request: its block has size 0, and the rest of the block is still reusable
C10_Witness ==
    /\ LastAllocateCreated
    /\ last.container \in SeqToSet(pods[last.pod].Containers)
    /\ \E i \in 1..Len(ReusableOf(memoryToReuse, last.pod)) :
           LET rb == ReusableOf(memoryToReuse, last.pod)[i]
               b == BlockOfType(assignments[<<last.pod, last.container>>], rb.Type)
           IN  /\ rb.Type \in DOMAIN LastRequested
               /\ rb.Size > 0
               /\ b.Size = 0
               /\ b.Reused = LastRequested[rb.Type]

----------------------------------------------------------------------------
(* Properties of the container scope, checked under SpecScope *)

\* C2: for every node with assignments > 0, every node of its group has
\* assignments > 0 and the same group, whatever hint the scope stored for
\* the containers.
C2_GroupCoherence ==
    \A n \in DOMAIN machineState :
        machineState[n].NumberOfAssignments > 0 =>
            \A m \in SeqToSet(machineState[n].Nodes) :
                /\ machineState[m].NumberOfAssignments > 0
                /\ machineState[m].Nodes = machineState[n].Nodes

AdmitDenied == admit.result \in {TopologyAffinityError, UnexpectedAdmissionError}

\* C7: when Admit has returned a denial, the machine state, the assignments
\* and the affinity table are what they were when Admit was called.
C7_DeniedAdmitLeavesNoState ==
    AdmitDenied =>
        /\ machineState = admit.pre.ms
        /\ assignments = admit.pre.asg
        /\ podTopologyHints = admit.pre.hints

\* the position of the container in the order Admit takes the containers in
ContainerIndex(pod, containerName) ==
    CHOOSE i \in 1..Len(AllContainersOf(pod)) : AllContainersOf(pod)[i] = containerName

\* C8: under a policy other than none, a container the merge denies ends the
\* call with TopologyAffinityError, and no hint is recorded and no provider's
\* Allocate is called for it or for a later container; a provider's Allocate
\* that fails ends the call with UnexpectedAdmissionError, and no later
\* provider or container is called; the result is Admit exactly when every
\* container was admitted by the merge and every provider's Allocate
\* succeeded for every container.
C8_AdmitVerdicts ==
    (policyName # PolicyNone /\ admit.pod # "") =>
        LET log == admit.log
            pod == pods[admit.pod]
            Denied(i) == log[i].kind = "Merge" /\ ~log[i].ok
            Failed(i) == log[i].kind = "Allocate" /\ ~log[i].ok
        IN  /\ \A i \in 1..Len(log) :
                   Denied(i) =>
                       /\ i = Len(log)
                       /\ admit.result = TopologyAffinityError
                       /\ \A j \in 1..Len(log) :
                              j # i => ContainerIndex(pod, log[j].container)
                                           < ContainerIndex(pod, log[i].container)
                       /\ GetAffinity(podTopologyHints, admit.pod, log[i].container)
                              = GetAffinity(admit.pre.hints, admit.pod,
                                            log[i].container)
            /\ \A i \in 1..Len(log) :
                   Failed(i) =>
                       /\ i = Len(log)
                       /\ admit.result = UnexpectedAdmissionError
            /\ admit.result = TopologyAffinityError =>
                   Len(log) > 0 /\ Denied(Len(log))
            /\ admit.result = UnexpectedAdmissionError =>
                   Len(log) > 0 /\ Failed(Len(log))
            /\ admit.result = ResultAdmit <=>
                   \A containerName \in SeqToSet(AllContainersOf(pod)) :
                       /\ \E i \in 1..Len(log) :
                              /\ log[i].kind = "Merge"
                              /\ log[i].container = containerName
                              /\ log[i].ok
                       /\ \A provider \in SeqToSet(hintProviders) :
                              \E i \in 1..Len(log) :
                                  /\ log[i].kind = "Allocate"
                                  /\ log[i].container = containerName
                                  /\ log[i].provider = provider
                                  /\ log[i].ok

\* Admit returned UnexpectedAdmissionError for the second container of a pod:
\* the first provider's Allocate failed after the first container went through
C8_Witness ==
    /\ policyName # PolicyNone
    /\ admit.result = UnexpectedAdmissionError
    /\ admit.next = 2
    /\ admit.log[Len(admit.log)].provider = hintProviders[1]

----------------------------------------------------------------------------
(* Hint extension, checked under Spec *)

\* the memory hints, recomputed without reusables, whose mask contains the
\* stored affinity
SupersetHints(ms, requestedAbsolute, affinity) ==
    LET hints == HintsOf(calculateHints(ms, requestedAbsolute, <<>>), ResourceMemory)
    IN  {hints[i] : i \in {j \in 1..Len(hints) :
                              affinity \subseteq hints[j].NUMANodeAffinity}}

\* C11: when the stored affinity is set and does not hold enough free memory
\* for the request less the reusable memory, and some hint recomputed without
\* reusables has a mask containing the stored affinity, Allocate does not
\* fail for lack of a hint to extend to, and the mask of the blocks it stores
\* contains the stored affinity.
C11_HintExtension ==
    \A podUID \in DOMAIN pods :
        \A containerName \in ContainerNames(pods[podUID]) :
            UsesAffinity(State, pods[podUID], containerName) =>
                \A hint \in StoredHints(podUID, containerName) \ {NoHint} :
                \A order \in AllocateOrders(State, pods[podUID], containerName) :
                    LET requested == getRequestedResources(
                            ContainerRequests(pods[podUID], containerName)).res
                        requestedAbsolute ==
                            AbsoluteRequested(requested, requested,
                                              ReusableOf(memoryToReuse, podUID))
                        a == AllocateOp(State, pods[podUID], containerName, hint, order)
                    IN  (/\ ~isAffinitySatisfyRequest(machineState,
                                                      hint.NUMANodeAffinity,
                                                      requestedAbsolute)
                         /\ SupersetHints(machineState, requestedAbsolute,
                                          hint.NUMANodeAffinity) # {})
                        => /\ a.err # "failed to find NUMA nodes to extend the current topology hint"
                           /\ a.err = ErrNone =>
                                  \A i \in 1..Len(a.asg[<<podUID, containerName>>]) :
                                      hint.NUMANodeAffinity \subseteq
                                          SeqToSet(a.asg[<<podUID, containerName>>][i].NUMAAffinity)

----------------------------------------------------------------------------
(* The scope's container index: AddContainer and RemoveContainer, which    *)
(* hold the scope's mutex from entry to return.                            *)

\* the id the runtime gives the container; it is not the container's name
ContainerID(podUID, containerName) == "id-" \o podUID \o "-" \o containerName

\* the ids RemoveContainer is called with: those of the pods' containers and
\* one that was never added
ContainerIDs ==
    {ContainerID(podUID, containerName) :
        podUID \in DOMAIN pods, containerName \in {"init1", "app1"}}
    \cup {"id-unknown"}

\* scope.AddContainer: the new podMap
ScopeAddContainerOp(pm, pod, containerID) == MapSet(pm, containerID, pod.UID)

\* s.podMap[containerID]: the empty string when the id is not in the map
PodOfContainer(pm, containerID) ==
    IF containerID \in DOMAIN pm THEN pm[containerID] ELSE ""

\* the deletions of scope.RemoveContainer in podTopologyHints, for the pod
\* the id was bound to
DeleteHint(hints, podUIDString, containerID) ==
    IF podUIDString \notin DOMAIN hints THEN hints
    ELSE IF DOMAIN MapDel(hints[podUIDString], containerID) = {}
    THEN MapDel(hints, podUIDString)
    ELSE MapSet(hints, podUIDString, MapDel(hints[podUIDString], containerID))

\* scope.RemoveContainer: [podMap, hints]
ScopeRemoveContainerOp(hints, pm, containerID) ==
    [podMap |-> MapDel(pm, containerID),
     hints |-> DeleteHint(hints, PodOfContainer(pm, containerID), containerID)]

ScopeAddContainer(podUID, containerName) ==
    /\ ~AdmitInProgress
    /\ podMap' = ScopeAddContainerOp(podMap, pods[podUID],
                                     ContainerID(podUID, containerName))
    /\ last' = [op |-> "scope.AddContainer", pod |-> podUID,
                container |-> ContainerID(podUID, containerName),
                present |-> ContainerID(podUID, containerName) \in DOMAIN podMap,
                err |-> ErrNone]
    /\ UNCHANGED <<pods, manager, policyName, machineState, assignments, memoryToReuse,
                   podTopologyHints, admit, mutex, pc>>

ScopeRemoveContainer(containerID) ==
    /\ ~AdmitInProgress
    /\ \E r \in {ScopeRemoveContainerOp(podTopologyHints, podMap, containerID)} :
        /\ podMap' = r.podMap
        /\ podTopologyHints' = r.hints
    /\ last' = [op |-> "scope.RemoveContainer",
                pod |-> PodOfContainer(podMap, containerID),
                container |-> containerID,
                present |-> containerID \in DOMAIN podMap,
                err |-> ErrNone]
    /\ UNCHANGED <<pods, manager, policyName, machineState, assignments, memoryToReuse,
                   admit, mutex, pc>>

\* one pod universe: the containers of pod1 request 1 and 2 units
InitContainers ==
    /\ pods \in {ps \in ScopePodSets :
                    ps["pod1"].Requests["init1"][ResourceMemory] = 1024 * 1000}
    /\ policyName \in {PolicyNone, PolicyBestEffort}
    /\ machineState = getDefaultMachineState
    /\ assignments = EmptyMap
    /\ memoryToReuse = EmptyMap
    /\ podTopologyHints = EmptyMap
    /\ podMap = EmptyMap
    /\ admit = Idle
    /\ mutex = ""
    /\ manager = NoManager
    /\ pc = NoCalls
    /\ last = [op |-> "", pod |-> "", container |-> "", present |-> FALSE,
               err |-> ErrNone]

NextContainers ==
    \/ \E podUID \in DOMAIN pods : Admit(podUID)
    \/ AdmitNextContainer
    \/ \E podUID \in DOMAIN pods :
           \E containerName \in ContainerNames(pods[podUID]) :
               ScopeAddContainer(podUID, containerName)
    \/ \E containerID \in ContainerIDs : ScopeRemoveContainer(containerID)

SpecContainers == InitContainers /\ [][NextContainers]_vars

\* C12: RemoveContainer for an id that AddContainer bound to an admitted pod
\* removes the id from podMap and the hint of that id's container from the affinity
\* table, and the pod's key with its last entry, so that GetAffinity returns
\* the empty hint for the container; RemoveContainer for an id that is not
\* in podMap returns success and changes neither map.
C12_RemoveClearsAffinity ==
    [][(last'.op = "scope.RemoveContainer" /\ last' # last) =>
        /\ last'.err = ErrNone
        /\ last'.container \notin DOMAIN podMap =>
               UNCHANGED <<podMap, podTopologyHints>>
        /\ \A podUID \in DOMAIN pods :
               \A containerName \in ContainerNames(pods[podUID]) :
                   (/\ last'.container = ContainerID(podUID, containerName)
                    /\ PodOfContainer(podMap, last'.container) = podUID
                    /\ admit.pod = podUID /\ admit.result = ResultAdmit)
                   => /\ last'.container \notin DOMAIN podMap'
                      /\ GetAffinity(podTopologyHints', podUID, containerName)
                             = NoHint
                      /\ podUID \in DOMAIN podTopologyHints' =>
                             DOMAIN podTopologyHints'[podUID] # {}]_vars

(***************************************************************************)
(* Concurrent callers of the scope.  Every caller is a goroutine inside    *)
(* one call of the scope; a step of a call runs from one access of shared  *)
(* memory to the next.  pc[t].access says that caller t is in the middle   *)
(* of a read or a write of podTopologyHints: the access has begun and has  *)
(* not ended.  mutex is scope.mutex.  One Admit call runs at a time, as    *)
(* the kubelet admits pods one after another, while AddContainer,          *)
(* RemoveContainer and GetAffinity come from other goroutines.             *)
(***************************************************************************)

Threads == {"t1", "t2"}

OutsideCall == [call |-> "", at |-> "", pod |-> "", container |-> "", hint |-> NoHint, access |-> ""]

InCall(t, call) == pc[t].call = call

Enter(t, call, at, podUID, container, hint, access) ==
    pc' = [pc EXCEPT ![t] = [call |-> call, at |-> at, pod |-> podUID,
                             container |-> container, hint |-> hint,
                             access |-> access]]

Return(t) == pc' = [pc EXCEPT ![t] = OutsideCall]

\* sync.Mutex.Lock: the caller goes on only when nobody holds the mutex
Lock(t) == mutex = "" /\ mutex' = t

Unlock(t) == mutex = t /\ mutex' = ""

\* scope.GetAffinity: the read of the table begins; no mutex is taken
GetAffinityBegin(t, podUID, containerName) ==
    /\ InCall(t, "")
    /\ Enter(t, "GetAffinity", "read", podUID, containerName, NoHint, "read")
    /\ UNCHANGED <<pods, manager, policyName, machineState, assignments, memoryToReuse,
                   podTopologyHints, podMap, admit, mutex, last>>

\* scope.GetAffinity: the read ends and the call returns the entry
GetAffinityReturn(t) ==
    /\ InCall(t, "GetAffinity")
    /\ Return(t)
    /\ last' = [op |-> "scope.GetAffinity", pod |-> pc[t].pod,
                container |-> pc[t].container,
                present |-> GetAffinity(podTopologyHints, pc[t].pod,
                                        pc[t].container) # NoHint,
                err |-> ErrNone]
    /\ UNCHANGED <<pods, manager, policyName, machineState, assignments, memoryToReuse,
                   podTopologyHints, podMap, admit, mutex>>

\* scope.AddContainer: s.mutex.Lock()
AddContainerLock(t, podUID, containerName) ==
    /\ InCall(t, "")
    /\ Lock(t)
    /\ Enter(t, "AddContainer", "locked", podUID,
             ContainerID(podUID, containerName), NoHint, "")
    /\ UNCHANGED <<pods, manager, policyName, machineState, assignments, memoryToReuse,
                   podTopologyHints, podMap, admit, last>>

\* scope.AddContainer: the write of podMap, and the deferred Unlock
AddContainerReturn(t) ==
    /\ InCall(t, "AddContainer")
    /\ podMap' = ScopeAddContainerOp(podMap, pods[pc[t].pod], pc[t].container)
    /\ Unlock(t)
    /\ Return(t)
    /\ UNCHANGED <<pods, manager, policyName, machineState, assignments, memoryToReuse,
                   podTopologyHints, admit, last>>

\* scope.RemoveContainer: s.mutex.Lock()
RemoveContainerLock(t, containerID) ==
    /\ InCall(t, "")
    /\ Lock(t)
    /\ Enter(t, "RemoveContainer", "locked", "", containerID, NoHint, "")
    /\ UNCHANGED <<pods, manager, policyName, machineState, assignments, memoryToReuse,
                   podTopologyHints, podMap, admit, last>>

\* scope.RemoveContainer: the lookup and the delete in podMap, and the
\* beginning of the accesses of the table: a lookup, followed by the deletes
\* when the pod has an entry
RemoveContainerLookup(t) ==
    /\ InCall(t, "RemoveContainer") /\ pc[t].at = "locked"
    /\ podMap' = MapDel(podMap, pc[t].container)
    /\ Enter(t, "RemoveContainer", "delete",
             PodOfContainer(podMap, pc[t].container), pc[t].container, NoHint,
             IF PodOfContainer(podMap, pc[t].container) \in DOMAIN podTopologyHints
             THEN "write" ELSE "read")
    /\ UNCHANGED <<pods, manager, policyName, machineState, assignments, memoryToReuse,
                   podTopologyHints, admit, mutex, last>>

\* scope.RemoveContainer: the deletes in the table end, and the deferred Unlock
RemoveContainerReturn(t) ==
    /\ InCall(t, "RemoveContainer") /\ pc[t].at = "delete"
    /\ podTopologyHints' = DeleteHint(podTopologyHints, pc[t].pod, pc[t].container)
    /\ Unlock(t)
    /\ Return(t)
    /\ UNCHANGED <<pods, manager, policyName, machineState, assignments, memoryToReuse,
                   podMap, admit, last>>

\* containerScope.Admit is called; no mutex is taken
AdmitCall(t, podUID) ==
    /\ InCall(t, "")
    /\ \A u \in Threads : ~InCall(u, "Admit")
    /\ podUID \notin admit.done
    /\ policyName # PolicyNone
    /\ admit' = [Idle EXCEPT !.pod = podUID, !.next = 1,
                             !.done = admit.done \cup {podUID}]
    /\ Enter(t, "Admit", "calculateAffinity", podUID,
             AllContainersOf(pods[podUID])[1], NoHint, "")
    /\ UNCHANGED <<pods, manager, policyName, machineState, assignments, memoryToReuse,
                   podTopologyHints, podMap, mutex, last>>

\* containerScope.Admit: calculateAffinity for the container at admit.next,
\* the return when it is not admitted, and otherwise the beginning of the
\* writes that record the hint
AdmitCalculateAffinity(t) ==
    /\ InCall(t, "Admit") /\ pc[t].at = "calculateAffinity"
    /\ \E o \in MergeOutcomes(policyName,
                    GetTopologyHintsOp(State, pods[pc[t].pod], pc[t].container)) :
        IF ~o.admit
        THEN /\ admit' = [admit EXCEPT !.result = TopologyAffinityError]
             /\ Return(t)
        ELSE /\ Enter(t, "Admit", "record", pc[t].pod, pc[t].container,
                      o.hint, "write")
             /\ UNCHANGED admit
    /\ UNCHANGED <<pods, manager, policyName, machineState, assignments, memoryToReuse,
                   podTopologyHints, podMap, mutex, last>>

\* the call of Admit after the pass for its container at admit.next ended
\* with err
AdmitAfter(t, err) ==
    IF err # ErrNone
    THEN admit' = [admit EXCEPT !.result = UnexpectedAdmissionError] /\ Return(t)
    ELSE IF admit.next = Len(AllContainersOf(pods[pc[t].pod]))
    THEN admit' = [admit EXCEPT !.result = ResultAdmit] /\ Return(t)
    ELSE /\ admit' = [admit EXCEPT !.next = admit.next + 1]
         /\ Enter(t, "Admit", "calculateAffinity", pc[t].pod,
                  AllContainersOf(pods[pc[t].pod])[admit.next + 1], NoHint, "")

\* containerScope.Admit: the writes that record the hint end, then
\* allocateAlignedResources, then the next container or the return
AdmitRecord(t) ==
    /\ InCall(t, "Admit") /\ pc[t].at = "record"
    /\ \E hints \in {RecordHint(podTopologyHints, pc[t].pod, pc[t].container,
                                pc[t].hint)} :
       \E failing \in FailingProviders :
       \E order \in AllocateOrders(State, pods[pc[t].pod], pc[t].container) :
       \E r \in {ScopeAllocateAlignedResources(State, hints, pods[pc[t].pod],
                     pc[t].container, 1, failing, order, <<>>)} :
           /\ podTopologyHints' = hints
           /\ machineState' = r.st.ms
           /\ assignments' = r.st.asg
           /\ memoryToReuse' = r.st.reuse
           /\ AdmitAfter(t, r.err)
    /\ UNCHANGED <<pods, manager, policyName, podMap, mutex, last>>

\* one Guaranteed pod with an init container and an app container
ConcurrentPodSets ==
    {[p \in {"pod1"} |-> ps[p]] : ps \in ScopePodSets}

InitConcurrent ==
    /\ pods \in ConcurrentPodSets
    /\ policyName \in {PolicyBestEffort, PolicyRestricted}
    /\ machineState = getDefaultMachineState
    /\ assignments = EmptyMap
    /\ memoryToReuse = EmptyMap
    /\ podTopologyHints = EmptyMap
    /\ podMap = EmptyMap
    /\ admit = Idle
    /\ mutex = ""
    /\ manager = NoManager
    /\ pc = [t \in Threads |-> OutsideCall]
    /\ last = [op |-> "", pod |-> "", container |-> "", present |-> FALSE,
               err |-> ErrNone]

NextConcurrent ==
    \/ \E t \in Threads : \E podUID \in DOMAIN pods : AdmitCall(t, podUID)
    \/ \E t \in Threads : AdmitCalculateAffinity(t)
    \/ \E t \in Threads : AdmitRecord(t)
    \/ \E t \in Threads : \E podUID \in DOMAIN pods :
           \E containerName \in ContainerNames(pods[podUID]) :
               GetAffinityBegin(t, podUID, containerName)
    \/ \E t \in Threads : GetAffinityReturn(t)
    \/ \E t \in Threads : \E podUID \in DOMAIN pods :
           \E containerName \in ContainerNames(pods[podUID]) :
               AddContainerLock(t, podUID, containerName)
    \/ \E t \in Threads : AddContainerReturn(t)
    \/ \E t \in Threads : \E containerID \in ContainerIDs :
           RemoveContainerLock(t, containerID)
    \/ \E t \in Threads : RemoveContainerLookup(t)
    \/ \E t \in Threads : RemoveContainerReturn(t)

SpecConcurrent == InitConcurrent /\ [][NextConcurrent]_vars

\* caller t is in the middle of an access of the table, of a write of it
Accessing(t) == pc[t].access # ""

Writing(t) == pc[t].access = "write"

\* C13: with concurrent callers of the scope, no read or write of the
\* Affinity table overlaps another write of it: no caller is in the middle of
\* a write of podTopologyHints while another caller is in the middle of a
\* read or a write of it
C13_MutualExclusion ==
    \A t \in DOMAIN pc : \A u \in DOMAIN pc \ {t} :
        ~(Writing(t) /\ Accessing(u))

-----------------------------------------------------------------------------
(* Hints of an allocated container, checked under Spec *)

\* the hints GetTopologyHints has to give back for a container with blocks:
\* for each requested type, the one preferred hint on the nodes of its block
HintsOfBlocks(blocks, requested) ==
    [r \in DOMAIN requested |->
        <<[NUMANodeAffinity |-> SeqToSet(BlockOfType(blocks, r).NUMAAffinity),
           Preferred |-> TRUE]>>]

\* C14: for every container whose blocks were stored by a successful
\* Allocate, an app container that reused init-container memory included,
\* GetTopologyHints returns for each requested resource type exactly one
\* hint, on the NUMA nodes of the stored block and preferred, whatever the
\* free memory is; the answer is a function of the stored blocks, so it is
\* the same on every later call until the container is removed
C14_RegeneratedHints ==
    \A podUID \in DOMAIN pods :
        \A containerName \in ContainerNames(pods[podUID]) :
            HasBlocks(assignments, podUID, containerName) =>
                GetTopologyHintsOp(State, pods[podUID], containerName)
                    = HintsOfBlocks(assignments[<<podUID, containerName>>],
                          getRequestedResources(ContainerRequests(
                              pods[podUID], containerName)).res)

-----------------------------------------------------------------------------
(* Pod-level aggregation, checked under Spec *)

\* the bytes of the resource the container requests, 0 when it requests none
RequestOf(pod, containerName, resourceName) ==
    LET reqRsrcs == getRequestedResources(ContainerRequests(pod, containerName)).res
    IN  IF resourceName \in DOMAIN reqRsrcs THEN reqRsrcs[resourceName] ELSE 0

\* the resources some container among names requests
RequestedBy(pod, names) ==
    UNION {DOMAIN getRequestedResources(ContainerRequests(pod, names[i])).res :
              i \in 1..Len(names)}

\* max(sum of the app containers' requests, maximum of the init containers'
\* requests) for the resource
MaxOfSumAndMax(pod, resourceName) ==
    LET app == [i \in 1..Len(pod.Containers) |->
                   RequestOf(pod, pod.Containers[i], resourceName)]
        sum == SumOver(app, DOMAIN app)
        inits == {RequestOf(pod, pod.InitContainers[i], resourceName) :
                     i \in 1..Len(pod.InitContainers)}
    IN  IF \E q \in inits : q > sum
        THEN CHOOSE q \in inits : \A o \in inits : o <= q
        ELSE sum

\* C15: for every resource requested by any init or app container of the
\* pod, a resource requested only by init containers included, the pod
\* requirement is max(sum of the app containers' requests, maximum of the
\* init containers' requests) for that resource
C15_PodAggregation ==
    \A podUID \in DOMAIN pods :
        ~getPodRequestedResources(pods[podUID]).err =>
            \A r \in RequestedBy(pods[podUID], AllContainersOf(pods[podUID])) :
                /\ r \in DOMAIN getPodRequestedResources(pods[podUID]).res
                /\ getPodRequestedResources(pods[podUID]).res[r]
                       = MaxOfSumAndMax(pods[podUID], r)

-----------------------------------------------------------------------------
(* Preferred hints, checked under Spec *)

\* GetTopologyHints of the container gets as far as calculateHints
ReachesCalculateHints(podUID, containerName) ==
    UsesAffinity(State, pods[podUID], containerName)

\* the demand calculateHints compares with the memory of a mask
DemandOf(podUID, containerName) ==
    AdjustRequested(
        getRequestedResources(ContainerRequests(pods[podUID], containerName)).res,
        getRequestedResources(ContainerRequests(pods[podUID], containerName)).res,
        ReusableOf(memoryToReuse, podUID))

\* the mask passes the group filters and the reusable filter, and the nodes
\* of the mask have together enough allocatable memory of every requested type
IsCandidate(podUID, containerName, mask) ==
    /\ ~(Cardinality(mask) = 1 /\ \E n \in mask : Len(machineState[n].Nodes) > 1)
    /\ ReusableInMask(mask,
           getRequestedResources(ContainerRequests(pods[podUID], containerName)).res,
           ReusableOf(memoryToReuse, podUID))
    /\ GroupsAllowMask(machineState, mask)
    /\ \A r \in DOMAIN DemandOf(podUID, containerName) :
           TotalAllocatableSize(machineState, mask, r)
               >= DemandOf(podUID, containerName)[r]

\* the sizes of the candidate masks
CandidateSizes(podUID, containerName) ==
    {Cardinality(mask) : mask \in {m \in SeqToSet(IterateBitMasks(NumaNodes)) :
                                      IsCandidate(podUID, containerName, m)}}

\* what calculateHints returns for the container in this state
CalculatedHints(podUID, containerName) ==
    calculateHints(machineState,
        getRequestedResources(ContainerRequests(pods[podUID], containerName)).res,
        ReusableOf(memoryToReuse, podUID))

\* C16: a hint emitted by calculateHints is preferred if and only if its mask
\* size is the smallest size of a candidate mask, a candidate being a mask
\* that passed the group and reusable filters and has enough allocatable
\* memory for every requested type, with or without enough free memory; so a
\* preferred hint has the minimum mask size among the hints emitted for its
\* resource
C16_Preferredness ==
    \A podUID \in DOMAIN pods :
        \A containerName \in ContainerNames(pods[podUID]) :
            ReachesCalculateHints(podUID, containerName) =>
                \A r \in DOMAIN CalculatedHints(podUID, containerName) :
                    \A i \in DOMAIN CalculatedHints(podUID, containerName)[r] :
                        LET hint == CalculatedHints(podUID, containerName)[r][i]
                            size == Cardinality(hint.NUMANodeAffinity)
                        IN  /\ hint.Preferred <=>
                                   \A k \in CandidateSizes(podUID, containerName) :
                                       size <= k
                            /\ hint.Preferred =>
                                   \A j \in DOMAIN CalculatedHints(podUID, containerName)[r] :
                                       size <= Cardinality(CalculatedHints(podUID,
                                                   containerName)[r][j].NUMANodeAffinity)

\* after an Allocate, calculateHints emits hints for a container while a
\* candidate mask lacks the free memory and gets no hint
C16_Witness ==
    /\ last.op = "Allocate" /\ last.err = ErrNone
    /\ \E podUID \in DOMAIN pods :
        \E containerName \in ContainerNames(pods[podUID]) :
            /\ ReachesCalculateHints(podUID, containerName)
            /\ \E r \in DOMAIN CalculatedHints(podUID, containerName) :
                \E mask \in SeqToSet(IterateBitMasks(NumaNodes)) :
                    /\ IsCandidate(podUID, containerName, mask)
                    /\ \A i \in DOMAIN CalculatedHints(podUID, containerName)[r] :
                           /\ CalculatedHints(podUID, containerName)[r][i].NUMANodeAffinity # mask
                           /\ Cardinality(mask) < Cardinality(CalculatedHints(podUID,
                                  containerName)[r][i].NUMANodeAffinity)

-----------------------------------------------------------------------------
(* staticPolicy.Start on a stored state.  The stored state is the one the  *)
(* policy left, or a checkpoint that differs from it in one place.         *)

ErrEmptyMachineState == "machine state can not be empty when it has memory assignments"

ErrNoSuchNUMA == "the memory assignment uses the NUMA that does not exist"

ErrNoSuchResource == "the memory assignment uses memory resource that does not exist"

ErrStatesDiffer == "the expected machine state is different from the real one"

\* the bytes the node gives to a block that still needs requestedSize
TakenOnNode(free, requestedSize) ==
    IF requestedSize = 0 \/ free <= 0 THEN 0
    ELSE IF free >= requestedSize THEN requestedSize
    ELSE free

\* one pass of the loop over b.NUMAAffinity in validateState, the node and the
\* resource being known
SimulateOnNode(ms, b, nodeID, taken) ==
    [ms EXCEPT
        ![nodeID].NumberOfAssignments = @ + 1,
        ![nodeID].Nodes = b.NUMAAffinity,
        ![nodeID].MemoryMap[b.Type].Reserved = @ + taken,
        ![nodeID].MemoryMap[b.Type].Free = @ - taken]

RECURSIVE SimulateOnNodes(_, _, _, _)
\* the loop over b.NUMAAffinity in validateState from the i-th node on:
\* [ms, err]
SimulateOnNodes(ms, b, i, requestedSize) ==
    IF i > Len(b.NUMAAffinity) THEN [ms |-> ms, err |-> ErrNone]
    ELSE IF b.NUMAAffinity[i] \notin DOMAIN ms
    THEN [ms |-> ms, err |-> ErrNoSuchNUMA]
    ELSE IF b.Type \notin DOMAIN ms[b.NUMAAffinity[i]].MemoryMap
    THEN [ms |-> ms, err |-> ErrNoSuchResource]
    ELSE SimulateOnNodes(
             SimulateOnNode(ms, b, b.NUMAAffinity[i],
                 TakenOnNode(ms[b.NUMAAffinity[i]].MemoryMap[b.Type].Free,
                             requestedSize)),
             b, i + 1,
             requestedSize - TakenOnNode(
                 ms[b.NUMAAffinity[i]].MemoryMap[b.Type].Free, requestedSize))

RECURSIVE SimulateBlocks(_, _)
\* the loop over the blocks of one container: [ms, err]
SimulateBlocks(r, blocks) ==
    IF blocks = <<>> \/ r.err # ErrNone THEN r
    ELSE SimulateBlocks(SimulateOnNodes(r.ms, Head(blocks), 1, Head(blocks).Size),
                        Tail(blocks))

RECURSIVE SimulateAssignments(_, _, _)
\* the loops over memoryAssignments; order is the order in which the Go maps
\* are ranged over
SimulateAssignments(r, asg, order) ==
    IF order = <<>> \/ r.err # ErrNone THEN r
    ELSE SimulateAssignments(SimulateBlocks(r, asg[Head(order)]), asg, Tail(order))

\* the orders in which the map of pods and, inside it, the maps of containers
\* can be ranged over: the containers of a pod come one after another
AssignmentOrders(asg) ==
    {o \in RangeOrders(DOMAIN asg) :
        \A i, k \in 1..Len(o) :
            (i < k /\ o[i][1] = o[k][1]) =>
                \A j \in i..k : o[j][1] = o[i][1]}

\* areMachineStatesEqual without the comparison of the assignment counts
areMachineStatesEqual_IgnoresAssignments(ms1, ms2) ==
    /\ Cardinality(DOMAIN ms1) = Cardinality(DOMAIN ms2)
    /\ \A nodeId \in DOMAIN ms1 :
        /\ nodeId \in DOMAIN ms2
        /\ areGroupsEqual(ms1[nodeId].Nodes, ms2[nodeId].Nodes)
        /\ Cardinality(DOMAIN ms1[nodeId].MemoryMap)
               = Cardinality(DOMAIN ms2[nodeId].MemoryMap)
        /\ \A resourceName \in DOMAIN ms1[nodeId].MemoryMap :
            /\ resourceName \in DOMAIN ms2[nodeId].MemoryMap
            /\ ms1[nodeId].MemoryMap[resourceName]
                   = ms2[nodeId].MemoryMap[resourceName]

areMachineStatesEqual(ms1, ms2) ==
    /\ Cardinality(DOMAIN ms1) = Cardinality(DOMAIN ms2)
    /\ \A nodeId \in DOMAIN ms1 :
        /\ nodeId \in DOMAIN ms2
        /\ ms1[nodeId].NumberOfAssignments = ms2[nodeId].NumberOfAssignments
        /\ areGroupsEqual(ms1[nodeId].Nodes, ms2[nodeId].Nodes)
        /\ Cardinality(DOMAIN ms1[nodeId].MemoryMap)
               = Cardinality(DOMAIN ms2[nodeId].MemoryMap)
        /\ \A resourceName \in DOMAIN ms1[nodeId].MemoryMap :
            /\ resourceName \in DOMAIN ms2[nodeId].MemoryMap
            /\ ms1[nodeId].MemoryMap[resourceName]
                   = ms2[nodeId].MemoryMap[resourceName]

\* validateState once the assignments are simulated
ValidateExpected(ms, expected) ==
    IF expected.err # ErrNone THEN [ms |-> ms, err |-> expected.err]
    ELSE IF ~areMachineStatesEqual(ms, expected.ms)
    THEN [ms |-> ms, err |-> ErrStatesDiffer]
    ELSE [ms |-> ms, err |-> ErrNone]

\* validateState: [ms, err], ms the stored machine state afterwards
validateState(ms, asg, order) ==
    IF DOMAIN ms = {}
    THEN IF DOMAIN asg # {}
         THEN [ms |-> ms, err |-> ErrEmptyMachineState]
         ELSE [ms |-> getDefaultMachineState, err |-> ErrNone]
    ELSE ValidateExpected(ms,
             SimulateAssignments([ms |-> getDefaultMachineState, err |-> ErrNone],
                                 asg, order))

\* staticPolicy.Start; the call records the order in which it ranged over
\* the assignments
Start ==
    \E order \in AssignmentOrders(assignments) :
    \E r \in {validateState(machineState, assignments, order)} :
        /\ machineState' = r.ms
        /\ last' = [op |-> "Start", pod |-> "", container |-> "",
                    present |-> FALSE, err |-> r.err, order |-> order]
        /\ UNCHANGED <<pods, manager, policyName, assignments, memoryToReuse,
                       podTopologyHints, podMap, admit, mutex, pc>>

\* the fields of a memory table
MemoryTableFields == {"Allocatable", "Free", "Reserved", "SystemReserved", "TotalMemSize"}

\* a NUMA node and a resource class that the host does not have
AbsentNode == 2

AbsentResource == "hugepages-2Mi"

\* the table with one field one byte larger
OneByteMore(table, field) ==
    [f \in DOMAIN table |-> IF f = field THEN table[f] + 1 ELSE table[f]]

\* the assignments with the first block of one container changed
WithFirstBlock(asg, key, block) ==
    [asg EXCEPT ![key] = [i \in DOMAIN asg[key] |-> IF i = 1 THEN block ELSE asg[key][i]]]

\* the policy is running: no checkpoint waits for Start, and Start has not failed
Running == last.op # "Preload" /\ ~(last.op = "Start" /\ last.err # ErrNone)

Preloaded(ms, asg, what) ==
    /\ Running
    /\ machineState' = ms
    /\ assignments' = asg
    /\ last' = [op |-> "Preload", pod |-> "", container |-> what,
                present |-> FALSE, err |-> ErrNone]
    /\ UNCHANGED <<pods, manager, policyName, memoryToReuse, podTopologyHints, podMap,
                   admit, mutex, pc>>

\* the checkpoint read at the next Start is the state the policy left
PreloadSame == Preloaded(machineState, assignments, "same")

\* the checkpoint has no machine state
PreloadEmpty == Preloaded(EmptyMap, assignments, "empty")

\* one field of one memory table of the checkpoint is one byte larger
PreloadTable(nodeId, resourceName, field) ==
    /\ machineState # EmptyMap
    /\ Preloaded([machineState EXCEPT ![nodeId].MemoryMap[resourceName] =
                      OneByteMore(@, field)], assignments, field)

\* the assignment count of one node of the checkpoint is one larger
PreloadCount(nodeId) ==
    /\ machineState # EmptyMap
    /\ Preloaded([machineState EXCEPT ![nodeId].NumberOfAssignments = @ + 1],
                 assignments, "NumberOfAssignments")

\* the group of one node of the checkpoint is another group, or is the same
\* group written in another order
PreloadGroup(nodeId, group) ==
    /\ machineState # EmptyMap
    /\ group # machineState[nodeId].Nodes
    /\ Preloaded([machineState EXCEPT ![nodeId].Nodes = group], assignments,
                 "Nodes")

\* the first block of one container of the checkpoint names a NUMA node, or
\* a resource class, that the host does not have
PreloadAbsent(key, what) ==
    /\ machineState # EmptyMap
    /\ key \in DOMAIN assignments
    /\ Preloaded(machineState,
           WithFirstBlock(assignments, key,
               IF what = "NUMA"
               THEN [assignments[key][1] EXCEPT
                        !.NUMAAffinity = Append(@, AbsentNode)]
               ELSE [assignments[key][1] EXCEPT !.Type = AbsentResource]),
           what)

\* the groups written in a checkpoint
Groups == {<<0>>, <<1>>, <<0, 1>>, <<1, 0>>}

\* one Guaranteed pod with an init container and an app container
InitStart ==
    /\ pods \in ConcurrentPodSets
    /\ policyName = PolicyBestEffort
    /\ machineState = getDefaultMachineState
    /\ assignments = EmptyMap
    /\ memoryToReuse = EmptyMap
    /\ podTopologyHints = EmptyMap
    /\ podMap = EmptyMap
    /\ admit = Idle
    /\ mutex = ""
    /\ manager = NoManager
    /\ pc = NoCalls
    /\ last = [op |-> "", pod |-> "", container |-> "", present |-> FALSE,
               err |-> ErrNone]

NextStart ==
    \/ /\ Running
       /\ \E podUID \in DOMAIN pods :
              \E containerName \in ContainerNames(pods[podUID]) :
                  Allocate(podUID, containerName)
    \/ /\ Running
       /\ \E podUID \in DOMAIN pods :
              \E containerName \in ContainerNames(pods[podUID]) :
                  RemoveContainer(podUID, containerName)
    \/ Start
    \/ PreloadSame
    \/ PreloadEmpty
    \/ \E nodeId \in NumaNodes : \E resourceName \in Resources :
           \E field \in MemoryTableFields :
               PreloadTable(nodeId, resourceName, field)
    \/ \E nodeId \in NumaNodes : PreloadCount(nodeId)
    \/ \E nodeId \in NumaNodes : \E group \in Groups : PreloadGroup(nodeId, group)
    \/ \E podUID \in DOMAIN pods :
           \E containerName \in ContainerNames(pods[podUID]) :
               \E what \in {"NUMA", "resource"} :
                   PreloadAbsent(<<podUID, containerName>>, what)

SpecStart == InitStart /\ [][NextStart]_vars

\* the machine state with every group written in ascending order
GroupsSorted(ms) ==
    [nodeId \in DOMAIN ms |-> [ms[nodeId] EXCEPT !.Nodes = SortInts(@)]]

\* the state obtained by simulating the stored assignments, in the given
\* order, on a fresh default state: [ms, err]
ResimulatedIn(order) ==
    SimulateAssignments([ms |-> getDefaultMachineState, err |-> ErrNone],
                        assignments, order)

\* the same in the order the call of the step took
Resimulated == ResimulatedIn(last'.order)

\* the step is a call of Start on a stored machine state that is not empty
StartOnStored ==
    /\ last'.op = "Start"
    /\ last' # last
    /\ machineState # EmptyMap

\* C17: when the stored machine state is not empty, Start succeeds, and
\* leaves the state unchanged, if and only if the stored machine state equals
\* field by field (every memory table, the assignment count and the group of
\* every node) the state obtained by simulating all stored assignments on a
\* fresh default state; any difference, even of one byte, makes Start fail,
\* as does an assignment that names a NUMA node or a resource class that the
\* topology does not have
C17_DriftDetection ==
    [][StartOnStored =>
        /\ UNCHANGED <<machineState, assignments>>
        /\ last'.err = ErrNone <=>
               /\ Resimulated.err = ErrNone
               /\ GroupsSorted(machineState) = GroupsSorted(Resimulated.ms)
        /\ (\E key \in DOMAIN assignments :
               \E i \in DOMAIN assignments[key] :
                   \/ assignments[key][i].Type \notin Resources
                   \/ \E j \in DOMAIN assignments[key][i].NUMAAffinity :
                          assignments[key][i].NUMAAffinity[j] \notin NumaNodes)
           => last'.err # ErrNone]_vars

\* Start has failed on a stored state with assignments whose machine state
\* differs from the simulated one by one byte of one field of one memory table
C17_Witness ==
    /\ last.op = "Start"
    /\ last.err = ErrStatesDiffer
    /\ assignments # EmptyMap
    /\ ResimulatedIn(last.order).err = ErrNone
    /\ \E nodeId \in NumaNodes : \E resourceName \in Resources :
           \E field \in MemoryTableFields :
               machineState =
                   [ResimulatedIn(last.order).ms EXCEPT
                       ![nodeId].MemoryMap[resourceName] = OneByteMore(@, field)]

-----------------------------------------------------------------------------
(* The memory tables, checked under Spec *)

\* C18: for every node and every resource class, in the default machine
\* state built from the host topology and in every state reachable from it,
\* allocatable = total - system_reserved
C18_AllocatableIsTotalLessReserved ==
    \A nodeId \in DOMAIN machineState :
        \A resourceName \in DOMAIN machineState[nodeId].MemoryMap :
            machineState[nodeId].MemoryMap[resourceName].Allocatable
                = machineState[nodeId].MemoryMap[resourceName].TotalMemSize
                  - machineState[nodeId].MemoryMap[resourceName].SystemReserved

-----------------------------------------------------------------------------
(* The scenarios on the test's machine at its true size: two nodes, each   *)
(* with 128 GiB of memory, ten 1 GiB hugepages and 1 GiB of system-reserved *)
(* memory.  The static policy is called directly, as under Spec.            *)

\* the bytes of 1 GiB, in the unit of the model
GiB == 1024

\* the test's machine: PageSize is in KiB as in the model's scaled machine
scenarioMachineInfo ==
    [n \in {0, 1} |-> [Memory |-> 128 * GiB,
                       HugePages |-> <<[PageSize |-> 1, NumPages |-> 10]>>]]

scenarioReserved == [n \in {0, 1} |-> [r \in {ResourceMemory} |-> 1 * GiB]]

scenarioMachineState == DefaultMachineStateOf(scenarioMachineInfo, scenarioReserved)

\* the pods of the scenarios: S1 requests 1 GiB of memory and S2 200 GiB
ScenarioPods ==
    [u \in {"s1", "s2"} |->
        IF u = "s1"
        THEN Pod(u, PodQOSGuaranteed, <<>>, Requests(1 * GiB * 1000, 0))
        ELSE Pod(u, PodQOSGuaranteed, <<>>, Requests(200 * GiB * 1000, 0))]

InitScenario ==
    /\ pods = ScenarioPods
    /\ policyName = PolicyBestEffort
    /\ machineState = scenarioMachineState
    /\ assignments = EmptyMap
    /\ memoryToReuse = EmptyMap
    /\ podTopologyHints = EmptyMap
    /\ podMap = EmptyMap
    /\ admit = Idle
    /\ mutex = ""
    /\ manager = NoManager
    /\ pc = NoCalls
    /\ last = [op |-> "", pod |-> "", container |-> "", present |-> FALSE,
               err |-> ErrNone]

NextScenario ==
    \/ \E podUID \in DOMAIN pods :
           \E containerName \in ContainerNames(pods[podUID]) :
               Allocate(podUID, containerName)
    \/ \E podUID \in DOMAIN pods :
           \E containerName \in ContainerNames(pods[podUID]) :
               RemoveContainer(podUID, containerName)

SpecScenario == InitScenario /\ [][NextScenario]_vars

\* the free regular memory of the node
FreeMemory(ms, nodeId) == ms[nodeId].MemoryMap[ResourceMemory].Free

\* the hints of the static policy for the memory of the pod's app container
MemoryHints(podUID) ==
    HintsOf(GetTopologyHintsOp(State, pods[podUID], "app1"), ResourceMemory)

\* the step is a successful call of op for the app container of the pod
ScenarioStep(op, podUID) ==
    /\ last' # last
    /\ last'.op = op /\ last'.pod = podUID /\ last'.container = "app1"
    /\ last'.err = ErrNone

\* C19: scenario S1.  From the default machine state a Guaranteed container
\* that requests 1 GiB of regular memory gets the best hint {node 0},
\* preferred; after Allocate on that hint the free regular memory of node 0
\* is 126 GiB, and after RemoveContainer it is 127 GiB
C19_ScenarioS1 ==
    [][/\ machineState = scenarioMachineState =>
              findBestHint(MemoryHints("s1"))
                  = [NUMANodeAffinity |-> {0}, Preferred |-> TRUE]
       /\ (/\ machineState = scenarioMachineState
           /\ ScenarioStep("Allocate", "s1")
           /\ BlockOfType(assignments'[<<"s1", "app1">>], ResourceMemory).NUMAAffinity
                  = <<0>>)
          => FreeMemory(machineState', 0) = 126 * GiB
       /\ (/\ DOMAIN assignments = {<<"s1", "app1">>}
           /\ BlockOfType(assignments[<<"s1", "app1">>], ResourceMemory).NUMAAffinity
                  = <<0>>
           /\ ScenarioStep("RemoveContainer", "s1"))
          => FreeMemory(machineState', 0) = 127 * GiB]_vars

\* C20: scenario S2.  From the default machine state a Guaranteed container
\* that requests 200 GiB of regular memory gets no hint on a single node and
\* gets the hint {node 0, node 1}, preferred; Allocate fills the nodes of the
\* mask in ascending order, so that afterwards the free regular memory of
\* node 0 is 0 and that of node 1 is 55 GiB
C20_ScenarioS2 ==
    [][/\ machineState = scenarioMachineState =>
              MemoryHints("s2") = <<[NUMANodeAffinity |-> {0, 1}, Preferred |-> TRUE]>>
       /\ (/\ machineState = scenarioMachineState
           /\ ScenarioStep("Allocate", "s2"))
          => /\ FreeMemory(machineState', 0) = 0
             /\ FreeMemory(machineState', 1) = 55 * GiB]_vars

-----------------------------------------------------------------------------
(* The frame of RemoveContainer, checked under Spec *)

\* the bytes of the resource class in the blocks
SizeOfBlocks(blocks, resourceName) ==
    SumOver([i \in DOMAIN blocks |->
                IF blocks[i].Type = resourceName THEN blocks[i].Size ELSE 0],
            DOMAIN blocks)

\* the nodes of the blocks of the resource class
NodesOfBlocks(blocks, resourceName) ==
    UNION {SeqToSet(blocks[i].NUMAAffinity) :
              i \in {j \in DOMAIN blocks : blocks[j].Type = resourceName}}

\* the bytes of the class that the step moves from reserved to free on the node
Released(nodeId, resourceName) ==
    machineState[nodeId].MemoryMap[resourceName].Reserved
        - machineState'[nodeId].MemoryMap[resourceName].Reserved

\* the step is a RemoveContainer for a container with blocks while another
\* container has blocks too
RemovesOneOfSeveral ==
    /\ last'.op = "RemoveContainer"
    /\ HasBlocks(assignments, last'.pod, last'.container)
    /\ DOMAIN assignments # {<<last'.pod, last'.container>>}

\* C21: when several containers hold assignments, RemoveContainer for one
\* of them returns nil, deletes exactly that container's blocks from the
\* assignments, moves exactly the sizes of the blocks from reserved back to
\* free on the blocks' NUMA nodes for the blocks' resource types, and leaves
\* the blocks of the other containers, the tables of the other resource
\* classes and total, system-reserved and allocatable as they are
C21_RemoveTouchesOneContainer ==
    [][RemovesOneOfSeveral =>
        LET key == <<last'.pod, last'.container>>
            blocks == assignments[key]
        IN  /\ last'.err = ErrNone
            /\ assignments' = [k \in (DOMAIN assignments) \ {key} |-> assignments[k]]
            /\ \A resourceName \in Resources :
                /\ SumOver([n \in NumaNodes |-> Released(n, resourceName)], NumaNodes)
                       = SizeOfBlocks(blocks, resourceName)
                /\ \A n \in NumaNodes :
                    /\ Released(n, resourceName) >= 0
                    /\ n \notin NodesOfBlocks(blocks, resourceName)
                           => Released(n, resourceName) = 0
                    /\ machineState'[n].MemoryMap[resourceName] =
                           [machineState[n].MemoryMap[resourceName] EXCEPT
                               !.Reserved = @ - Released(n, resourceName),
                               !.Free = @ + Released(n, resourceName)]]_vars

----------------------------------------------------------------------------
(* The manager.  It binds a policy, the state and the runtime adapter.  The *)
(* policy is the static policy or the mock policy of the tests, which       *)
(* returns its error from every method and touches nothing.  The state is   *)
(* the one a checkpoint gave the manager: nothing, or two containers with  *)
(* one unit on node 0 each, as in the tests; one of them is of a pod that   *)
(* is no longer among the pods.                                             *)

PolicyStatic == "static"
PolicyMock == "mock"

\* mockPolicy.err in the tests
ErrMock == "Fake reg error"

\* mockPolicy.Allocate and the static policy's Allocate behind Policy
PolicyAllocate(policy, st, pod, containerName, hint, order) ==
    IF policy = PolicyMock THEN Returned(st, ErrMock)
    ELSE AllocateOp(st, pod, containerName, hint, order)

\* mockPolicy.RemoveContainer removing the blocks before it returns its error
MockRemoveContainer_Removes(st, podUID, containerName) ==
    [RemoveContainerOp(st, podUID, containerName) EXCEPT !.err = ErrMock]

\* mockPolicy.RemoveContainer
MockRemoveContainer(st, podUID, containerName) ==
    Returned(st, ErrMock)

\* Policy.RemoveContainer of the manager's policy
PolicyRemoveContainer(policy, st, podUID, containerName) ==
    IF policy = PolicyMock THEN MockRemoveContainer(st, podUID, containerName)
    ELSE RemoveContainerOp(st, podUID, containerName)

\* the assignments and the machine state of the checkpoint
storedAssignments ==
    [key \in {<<"pod1", "init1">>, <<"pod2", "app1">>} |->
        <<[NUMAAffinity |-> <<0>>, Size |-> 1024, Type |-> ResourceMemory,
           Reused |-> 0]>>]

storedMachineState ==
    SimulateAssignments([ms |-> getDefaultMachineState, err |-> ErrNone],
                        storedAssignments,
                        <<<<"pod1", "init1">>, <<"pod2", "app1">>>>).ms

\* pod1 with an init container of one unit and an app container of two
ManagerPodSets ==
    {ps \in ConcurrentPodSets :
        ps["pod1"].Requests["init1"] = Requests(1024 * 1000, 0)}

InitManager ==
    /\ pods \in ManagerPodSets
    /\ policyName = PolicyBestEffort
    /\ \/ machineState = getDefaultMachineState /\ assignments = EmptyMap
       \/ machineState = storedMachineState /\ assignments = storedAssignments
    /\ memoryToReuse = EmptyMap
    /\ podTopologyHints = EmptyMap
    /\ podMap = EmptyMap
    /\ admit = Idle
    /\ mutex = ""
    /\ pc = NoCalls
    /\ manager \in [policy : {PolicyStatic, PolicyMock},
                    containerMap : {EmptyMap},
                    activePods : {{}, {"pod1"}}]
    /\ last = [op |-> "", pod |-> "", container |-> "", present |-> FALSE,
               err |-> ErrNone]

\* manager.Allocate: the policy's Allocate.  The call records the machine
\* state it found.
ManagerAllocate(podUID, containerName) ==
    \E hint \in IF UsesAffinity(State, pods[podUID], containerName)
                THEN StoredHints(podUID, containerName) ELSE {NoHint} :
    \E order \in IF UsesAffinity(State, pods[podUID], containerName)
                 THEN RangeOrders(DOMAIN getRequestedResources(
                          ContainerRequests(pods[podUID], containerName)).res)
                 ELSE {<<>>} :
    \E r \in {PolicyAllocate(manager.policy, State, pods[podUID], containerName,
                             hint, order)} :
        /\ machineState' = r.ms
        /\ assignments' = r.asg
        /\ memoryToReuse' = r.reuse
        /\ last' = [op |-> "Allocate", pod |-> podUID, container |-> containerName,
                    present |-> HasBlocks(assignments, podUID, containerName),
                    err |-> r.err, before |-> machineState]
        /\ UNCHANGED <<pods, policyName, podTopologyHints, podMap, admit, mutex,
                       pc, manager>>

\* the state after manager.AddContainer: when the runtime refuses the update
\* of the container, the policy is asked to remove the container again
AddContainerOp(policy, st, podUID, containerName, updateErr) ==
    IF updateErr /\ HasBlocks(st.asg, podUID, containerName)
    THEN PolicyRemoveContainer(policy, st, podUID, containerName)
    ELSE Returned(st, ErrNone)

\* manager.AddContainer; updateErr: UpdateContainerResources returns an error
ManagerAddContainer(podUID, containerName, updateErr) ==
    \E r \in {AddContainerOp(manager.policy, State, podUID, containerName,
                             updateErr)} :
        /\ machineState' = r.ms
        /\ assignments' = r.asg
        /\ memoryToReuse' = r.reuse
        /\ manager' = [manager EXCEPT !.containerMap =
                          MapSet(@, ContainerID(podUID, containerName),
                                 <<podUID, containerName>>)]
        /\ last' = [op |-> "AddContainer", pod |-> podUID,
                    container |-> containerName,
                    present |-> HasBlocks(assignments, podUID, containerName),
                    err |-> ErrNone, updateErr |-> updateErr]
        /\ UNCHANGED <<pods, policyName, podTopologyHints, podMap, admit, mutex, pc>>

\* the policy's RemoveContainer for a container and, when it succeeds, the
\* removal of the container from manager.containerMap: [st, containerMap, err]
RemoveContainerByRef(policy, st, containerMap, key) ==
    LET r == PolicyRemoveContainer(policy, st, key[1], key[2])
    IN  [st |-> [ms |-> r.ms, asg |-> r.asg, reuse |-> r.reuse],
         containerMap |-> IF r.err = ErrNone
                          THEN [id \in {i \in DOMAIN containerMap :
                                           containerMap[i] # key} |->
                                   containerMap[id]]
                          ELSE containerMap,
         err |-> r.err]

\* manager.RemoveContainer(containerID): an id that is not bound is ignored
ManagerRemoveContainer(podUID, containerName) ==
    /\ IF ContainerID(podUID, containerName) \in DOMAIN manager.containerMap
       THEN \E r \in {RemoveContainerByRef(manager.policy, State,
                          manager.containerMap, <<podUID, containerName>>)} :
               /\ machineState' = r.st.ms
               /\ assignments' = r.st.asg
               /\ memoryToReuse' = r.st.reuse
               /\ manager' = [manager EXCEPT !.containerMap = r.containerMap]
               /\ last' = [op |-> "RemoveContainer", pod |-> podUID,
                           container |-> containerName, present |-> TRUE,
                           err |-> r.err]
       ELSE /\ UNCHANGED <<machineState, assignments, memoryToReuse, manager>>
            /\ last' = [op |-> "RemoveContainer", pod |-> podUID,
                        container |-> containerName, present |-> FALSE,
                        err |-> ErrNone]
    /\ UNCHANGED <<pods, policyName, podTopologyHints, podMap, admit, mutex, pc>>

RECURSIVE SweepOp(_, _, _, _)
\* the loop of removeStaleState over the assignments of the pods that are
\* not active, in the order the maps are ranged over; an error of the policy
\* is logged and the loop goes on: [st, containerMap]
SweepOp(policy, st, containerMap, order) ==
    IF order = <<>> THEN [st |-> st, containerMap |-> containerMap]
    ELSE SweepOp(policy,
                 RemoveContainerByRef(policy, st, containerMap, Head(order)).st,
                 RemoveContainerByRef(policy, st, containerMap,
                                      Head(order)).containerMap,
                 Tail(order))

\* the assignments of the pods that activePods() does not return
StaleAssignments(asg, activePods) ==
    [key \in {k \in DOMAIN asg : k[1] \notin activePods} |-> asg[key]]

\* manager.removeStaleState
removeStaleState ==
    \E order \in AssignmentOrders(StaleAssignments(assignments, manager.activePods)) :
    \E r \in {SweepOp(manager.policy, State, manager.containerMap, order)} :
        /\ machineState' = r.st.ms
        /\ assignments' = r.st.asg
        /\ memoryToReuse' = r.st.reuse
        /\ manager' = [manager EXCEPT !.containerMap = r.containerMap]
        /\ last' = [op |-> "removeStaleState", pod |-> "", container |-> "",
                    present |-> order # <<>>, err |-> ErrNone]
        /\ UNCHANGED <<pods, policyName, podTopologyHints, podMap, admit, mutex, pc>>

\* the containers the manager hears of: those of the pods and those of the
\* checkpoint
ManagerContainers ==
    {<<podUID, containerName>> :
        podUID \in DOMAIN pods, containerName \in {"init1", "app1"}}
    \cup DOMAIN storedAssignments

NextManager ==
    \/ \E podUID \in DOMAIN pods :
           \E containerName \in ContainerNames(pods[podUID]) :
               ManagerAllocate(podUID, containerName)
    \/ \E key \in ManagerContainers :
           \E updateErr \in BOOLEAN :
               ManagerAddContainer(key[1], key[2], updateErr)
    \/ \E key \in ManagerContainers :
           ManagerRemoveContainer(key[1], key[2])
    \/ removeStaleState

SpecManager == InitManager /\ [][NextManager]_vars

----------------------------------------------------------------------------
(* The sweep of the stale state and the runtime's errors, checked under     *)
(* SpecManager                                                              *)

\* C22: after removeStaleState with a policy whose RemoveContainer succeeds,
\* the assignments hold no container of a pod that is absent from the active
\* pods (none at all when no pod is active) and still hold the blocks of the
\* containers of the active pods; with a policy whose RemoveContainer returns
\* an error, every entry stays in the assignments
C22_StaleSweep ==
    [][last'.op = "removeStaleState" =>
        /\ manager.policy = PolicyStatic =>
            /\ \A key \in DOMAIN assignments' : key[1] \in manager.activePods
            /\ manager.activePods = {} => assignments' = EmptyMap
            /\ \A key \in DOMAIN assignments :
                   key[1] \in manager.activePods =>
                       /\ key \in DOMAIN assignments'
                       /\ assignments'[key] = assignments[key]
        /\ manager.policy = PolicyMock => assignments' = assignments]_vars

\* the sweep removed the container of a pod that is not active and kept the
\* one of an active pod
C22_Witness ==
    /\ last.op = "removeStaleState"
    /\ last.present
    /\ manager.policy = PolicyStatic
    /\ DOMAIN assignments # {}
    /\ \A key \in DOMAIN assignments : key[1] \in manager.activePods

\* the sweep met the error of the policy for an entry
C22_WitnessError ==
    /\ last.op = "removeStaleState"
    /\ last.present
    /\ manager.policy = PolicyMock
    /\ DOMAIN assignments # {}

\* AddContainer comes right after the Allocate that created the blocks of the
\* container, and the runtime refuses the update
RuntimeFailsAfterAllocate ==
    /\ last.op = "Allocate"
    /\ last.err = ErrNone
    /\ ~last.present
    /\ last'.op = "AddContainer"
    /\ last'.pod = last.pod
    /\ last'.container = last.container
    /\ last'.updateErr

\* C23: when UpdateContainerResources fails during AddContainer, AddContainer
\* returns no error and the machine state afterwards equals the machine
\* state before the Allocate of the container that preceded
C23_RuntimeErrorNotFatal ==
    [][RuntimeFailsAfterAllocate =>
        /\ last'.err = ErrNone
        /\ machineState' = last.before]_vars

----------------------------------------------------------------------------
(* The demand and the filters of calculateHints, checked under Spec         *)

\* the requested resources of the container
RequestedOf(podUID, containerName) ==
    getRequestedResources(ContainerRequests(pods[podUID], containerName)).res

\* the masks calculateHints returns a hint with for the resource
MasksOfHints(hints, resourceName) ==
    {HintsOf(hints, resourceName)[i].NUMANodeAffinity :
        i \in DOMAIN HintsOf(hints, resourceName)}

\* the request less the size of the reusable block of the type, and not less
\* than 0; the request itself when the pod has no reusable block of the type
DemandLessReusable(requestedResources, reusable) ==
    [r \in DOMAIN requestedResources |->
        IF \E i \in DOMAIN reusable : reusable[i].Type = r
        THEN IF requestedResources[r] > SizeOfBlocks(reusable, r)
             THEN requestedResources[r] - SizeOfBlocks(reusable, r)
             ELSE 0
        ELSE requestedResources[r]]

\* the nodes of the mask have together the allocatable and the free memory
\* for the demand of every type
MaskCovers(ms, mask, demand) ==
    \A r \in DOMAIN demand :
        /\ TotalAllocatableSize(ms, mask, r) >= demand[r]
        /\ TotalFreeSize(ms, mask, r) >= demand[r]

\* the mask passes the filters on the groups of its nodes
PassesGroupFilters(ms, mask) ==
    /\ ~(Cardinality(mask) = 1 /\ \E n \in mask : Len(ms[n].Nodes) > 1)
    /\ GroupsAllowMask(ms, mask)

\* C24: in calculateHints the demand compared with the allocatable and the
\* free memory of a mask, for a type that has a reusable block, is
\* max(0, requested - reusable size): a mask that passes the group filters
\* and contains the nodes of the reusable blocks gets a hint exactly when it
\* covers that demand, so with a reusable block as large as the request it
\* gets one without any free memory; a mask that does not contain every node
\* of a reusable block of a requested type gets no hint
C24_AdjustedDemand ==
    \A podUID \in DOMAIN pods :
        \A containerName \in ContainerNames(pods[podUID]) :
            ReachesCalculateHints(podUID, containerName) =>
                \A mask \in SeqToSet(IterateBitMasks(NumaNodes)) :
                    \A r \in DOMAIN RequestedOf(podUID, containerName) :
                        /\ ~ReusableInMask(mask, RequestedOf(podUID, containerName),
                                           ReusableOf(memoryToReuse, podUID))
                               => mask \notin MasksOfHints(
                                      CalculatedHints(podUID, containerName), r)
                        /\ (/\ PassesGroupFilters(machineState, mask)
                            /\ ReusableInMask(mask, RequestedOf(podUID, containerName),
                                              ReusableOf(memoryToReuse, podUID)))
                               => (mask \in MasksOfHints(
                                       CalculatedHints(podUID, containerName), r)
                                   <=> MaskCovers(machineState, mask,
                                           DemandLessReusable(
                                               RequestedOf(podUID, containerName),
                                               ReusableOf(memoryToReuse, podUID))))

\* how many hints with the mask calculateHints returns for the resource
HintsWithMask(hints, resourceName, mask) ==
    Cardinality({i \in DOMAIN HintsOf(hints, resourceName) :
                    HintsOf(hints, resourceName)[i].NUMANodeAffinity = mask})

\* the mask is one node whose group has more than one member, or several
\* nodes one of which has assignments and a group that has one member or is
\* not the mask
ExcludedByGroups(ms, mask) ==
    \/ /\ Cardinality(mask) = 1
       /\ \E n \in mask : Len(ms[n].Nodes) > 1
    \/ /\ Cardinality(mask) > 1
       /\ \E n \in mask :
           /\ ms[n].NumberOfAssignments > 0
           /\ ~(Len(ms[n].Nodes) > 1 /\ SeqToSet(ms[n].Nodes) = mask)

\* C25 as stated: calculateHints emits no mask excluded by the group
\* filters, and emits every other non-empty subset of the NUMA nodes whose
\* allocatable and free memory cover the adjusted demand of every requested
\* type exactly once, for every requested type
C25_GroupFilters_AsStated ==
    \A podUID \in DOMAIN pods :
        \A containerName \in ContainerNames(pods[podUID]) :
            ReachesCalculateHints(podUID, containerName) =>
                \A mask \in SeqToSet(IterateBitMasks(NumaNodes)) :
                    \A r \in DOMAIN RequestedOf(podUID, containerName) :
                        HintsWithMask(CalculatedHints(podUID, containerName), r, mask)
                            = IF /\ ~ExcludedByGroups(machineState, mask)
                                 /\ MaskCovers(machineState, mask,
                                               DemandOf(podUID, containerName))
                              THEN 1 ELSE 0

\* C25: calculateHints never emits a single-node mask for a node whose group
\* has more than one member, and never emits a multi-node mask containing a
\* node with assignments > 0 unless that node's group has more than one
\* member and equals the mask; every other non-empty subset of the NUMA
\* nodes that contains the nodes of the reusable blocks of the requested
\* types and whose allocatable and free memory cover the adjusted demand of
\* every requested type is emitted exactly once, for every requested type
C25_GroupFilters ==
    \A podUID \in DOMAIN pods :
        \A containerName \in ContainerNames(pods[podUID]) :
            ReachesCalculateHints(podUID, containerName) =>
                \A mask \in SeqToSet(IterateBitMasks(NumaNodes)) :
                    \A r \in DOMAIN RequestedOf(podUID, containerName) :
                        HintsWithMask(CalculatedHints(podUID, containerName), r, mask)
                            = IF /\ ~ExcludedByGroups(machineState, mask)
                                 /\ ReusableInMask(mask,
                                        RequestedOf(podUID, containerName),
                                        ReusableOf(memoryToReuse, podUID))
                                 /\ MaskCovers(machineState, mask,
                                               DemandOf(podUID, containerName))
                              THEN 1 ELSE 0

\* calculateHints runs for a container while a mask of several nodes that
\* covers the demand is excluded, a node of it being used alone, and a mask
\* of one node gets a hint
C25_Witness ==
    \E podUID \in DOMAIN pods :
        \E containerName \in ContainerNames(pods[podUID]) :
            /\ ReachesCalculateHints(podUID, containerName)
            /\ \E mask \in SeqToSet(IterateBitMasks(NumaNodes)) :
                   /\ Cardinality(mask) > 1
                   /\ ExcludedByGroups(machineState, mask)
                   /\ MaskCovers(machineState, mask, DemandOf(podUID, containerName))
            /\ \E mask \in SeqToSet(IterateBitMasks(NumaNodes)) :
                   \E r \in DOMAIN RequestedOf(podUID, containerName) :
                       HintsWithMask(CalculatedHints(podUID, containerName), r, mask) = 1

\* calculateHints runs for a container while a mask of several nodes, all
\* with assignments and in the group that is the mask, gets a hint
C25_WitnessGroup ==
    \E podUID \in DOMAIN pods :
        \E containerName \in ContainerNames(pods[podUID]) :
            /\ ReachesCalculateHints(podUID, containerName)
            /\ \E mask \in SeqToSet(IterateBitMasks(NumaNodes)) :
                   /\ Cardinality(mask) > 1
                   /\ \A n \in mask : machineState[n].NumberOfAssignments > 0
                   /\ \E r \in DOMAIN RequestedOf(podUID, containerName) :
                       HintsWithMask(CalculatedHints(podUID, containerName), r, mask) = 1

----------------------------------------------------------------------------
(* The assignment counts after Allocate, checked under Spec                 *)

\* the step is an Allocate that returns nil and stores blocks for a container
\* that had none
AllocateCreatesBlocks ==
    /\ last'.op = "Allocate"
    /\ last'.err = ErrNone
    /\ ~HasBlocks(assignments, last'.pod, last'.container)
    /\ HasBlocks(assignments', last'.pod, last'.container)

\* C26: after an Allocate that creates blocks for a container, every node of
\* the final mask, also a node that gave no byte, has its count of
\* assignments raised by exactly 1, whatever the number of resource types
\* the container requests, and has the nodes of the mask as its group
C26_AssignmentCounting ==
    [][AllocateCreatesBlocks =>
        \A n \in SeqToSet(assignments'[<<last'.pod, last'.container>>][1].NUMAAffinity) :
            /\ machineState'[n].NumberOfAssignments
                   = machineState[n].NumberOfAssignments + 1
            /\ SeqToSet(machineState'[n].Nodes)
                   = SeqToSet(assignments'[<<last'.pod, last'.container>>][1].NUMAAffinity)]_vars

----------------------------------------------------------------------------
(* The order of the steps of one Admit, checked under SpecScope             *)

\* the step is one pass of the loop of Admit with a policy that merges hints
AdmitPass == admit'.pod # "" /\ admit' # admit /\ policyName # PolicyNone

\* the position in the pod of the container the pass is for
PassPosition == IF AdmitInProgress THEN admit.next ELSE 1

\* the container the pass is for
PassContainer == AllContainersOf(pods[admit'.pod])[PassPosition]

\* what the pass adds to the log of the call
PassEvents ==
    SubSeq(admit'.log, Len(IF AdmitInProgress THEN admit.log ELSE <<>>) + 1,
           Len(admit'.log))

\* the pass called the Allocate of the memory manager
PassAllocatesMemory ==
    \E i \in DOMAIN PassEvents :
        PassEvents[i].kind = "Allocate" /\ PassEvents[i].provider = MemoryManager

\* C27: within one Admit the containers are processed in the order init
\* containers then app containers, one per pass; in a pass the hints are
\* merged first, the merged hint is logged and written to the table before
\* any provider's Allocate is invoked, and the Allocate of the memory manager
\* works with the hint GetAffinity returns for the container, which is the
\* hint just merged and logged for that container
C27_AdmissionOrdering ==
    [][AdmitPass =>
        /\ PassPosition \in DOMAIN AllContainersOf(pods[admit'.pod])
        /\ admit'.result = "" => admit'.next = PassPosition + 1
        /\ PassEvents # <<>>
        /\ PassEvents[1].kind = "Merge"
        /\ \A i \in DOMAIN PassEvents :
            /\ PassEvents[i].container = PassContainer
            /\ PassEvents[i].kind = "Allocate" =>
                   \E j \in 1..(i - 1) : PassEvents[j].kind = "Hint"
        /\ PassAllocatesMemory =>
            /\ GetAffinity(podTopologyHints', admit'.pod, PassContainer)
                   \in StoredHints(admit'.pod, PassContainer)
            /\ \A i \in DOMAIN PassEvents :
                   PassEvents[i].kind = "Hint" =>
                       GetAffinity(podTopologyHints', admit'.pod, PassContainer)
                           = PassEvents[i].hint
            /\ \E order \in AllocateOrders(State, pods[admit'.pod], PassContainer) :
                   /\ assignments' = AllocateOp(State, pods[admit'.pod], PassContainer,
                          GetAffinity(podTopologyHints', admit'.pod, PassContainer),
                          order).asg
                   /\ machineState' = AllocateOp(State, pods[admit'.pod], PassContainer,
                          GetAffinity(podTopologyHints', admit'.pod, PassContainer),
                          order).ms]_vars

\* Admit returned for pod1 after the memory manager allocated for the init
\* container and then for the app container, each with its own hint
C27_Witness ==
    /\ admit.pod = "pod1"
    /\ admit.result = ResultAdmit
    /\ policyName # PolicyNone
    /\ HasBlocks(assignments, "pod1", "init1")
    /\ HasBlocks(assignments, "pod1", "app1")
    /\ GetAffinity(podTopologyHints, "pod1", "init1")
           # GetAffinity(podTopologyHints, "pod1", "app1")

----------------------------------------------------------------------------
(* The hints of a pod after its admission, checked under Spec               *)

\* every container of the pod has blocks
AllContainersHaveBlocks(podUID) ==
    \A containerName \in ContainerNames(pods[podUID]) :
        HasBlocks(assignments, podUID, containerName)

\* the NUMA sets of the blocks of the resource that the pod's containers hold
NodeSetsOfPod(podUID, resourceName) ==
    {SeqToSet(b.NUMAAffinity) :
        b \in UNION {{assignments[k][j] :
                         j \in {x \in DOMAIN assignments[k] :
                                   assignments[k][x].Type = resourceName}} :
                        k \in {y \in DOMAIN assignments : y[1] = podUID}}}

\* C28: for a Guaranteed pod all of whose containers have blocks stored by
\* Allocate, GetPodTopologyHints returns for each resource the pod requests
\* a hint, every hint it returns for the resource being preferred and on the
\* NUMA set of stored blocks of the pod, whatever the free memory is; when no
\* container of the pod has blocks the hints are those calculateHints
\* computes from the pod's aggregated requirement with no reusable block
C28_PodHintsStable ==
    \A podUID \in DOMAIN pods :
        /\ (IsGuaranteed(podUID) /\ AllContainersHaveBlocks(podUID)) =>
               \A r \in DOMAIN getPodRequestedResources(pods[podUID]).res :
                   /\ HintsOf(GetPodTopologyHintsOp(State, pods[podUID]), r) # <<>>
                   /\ \A i \in DOMAIN HintsOf(GetPodTopologyHintsOp(State, pods[podUID]), r) :
                       /\ HintsOf(GetPodTopologyHintsOp(State, pods[podUID]), r)[i].Preferred
                       /\ HintsOf(GetPodTopologyHintsOp(State, pods[podUID]), r)[i].NUMANodeAffinity
                              \in NodeSetsOfPod(podUID, r)
        /\ (IsGuaranteed(podUID)
            /\ ~getPodRequestedResources(pods[podUID]).err
            /\ \A containerName \in ContainerNames(pods[podUID]) :
                   ~HasBlocks(assignments, podUID, containerName)) =>
               GetPodTopologyHintsOp(State, pods[podUID])
                   = calculateHints(machineState,
                         getPodRequestedResources(pods[podUID]).res, <<>>)

----------------------------------------------------------------------------
(* The static policy called for a pod with two init containers              *)

\* pod1 is Guaranteed and has the init containers init1, which requests one
\* or two units of memory, and init2 and the app container app1, which
\* request one unit; pod2 is Guaranteed and has one container
InitsPodSets ==
    {[u \in {"pod1", "pod2"} |->
        IF u = "pod1"
        THEN [UID |-> u, QOS |-> PodQOSGuaranteed,
              InitContainers |-> <<"init1", "init2">>,
              Containers |-> <<"app1">>,
              Requests |-> [c \in {"init1", "init2", "app1"} |->
                               IF c = "init1" THEN Requests(m1, 0)
                               ELSE IF c = "init2" THEN Requests(1024 * 1000, 0)
                               ELSE Requests(1024 * 1000, 0)]]
        ELSE Pod(u, PodQOSGuaranteed, <<>>, Requests(1024 * 1000, 0))] :
        m1 \in {1024 * 1000, 2 * 1024 * 1000}}

InitInits ==
    /\ pods \in InitsPodSets
    /\ policyName = PolicyBestEffort
    /\ machineState = getDefaultMachineState
    /\ assignments = EmptyMap
    /\ memoryToReuse = EmptyMap
    /\ podTopologyHints = EmptyMap
    /\ podMap = EmptyMap
    /\ admit = Idle
    /\ mutex = ""
    /\ manager = NoManager
    /\ pc = NoCalls
    /\ last = [op |-> "", pod |-> "", container |-> "", present |-> FALSE,
               err |-> ErrNone]

\* the containers of pod1 are allocated and stay; the container of pod2
\* comes and goes
NextInits ==
    \/ \E podUID \in DOMAIN pods :
           \E containerName \in ContainerNames(pods[podUID]) :
               Allocate(podUID, containerName)
    \/ RemoveContainer("pod2", "app1")

SpecInits == InitInits /\ [][NextInits]_vars

\* the largest request of the resource among the init containers of the pod
LargestInitRequest(pod, resourceName) ==
    CHOOSE q \in {RequestOf(pod, pod.InitContainers[i], resourceName) :
                     i \in DOMAIN pod.InitContainers} :
        \A i \in DOMAIN pod.InitContainers :
            RequestOf(pod, pod.InitContainers[i], resourceName) <= q

\* the step is the Allocate that creates the blocks of the last init
\* container of a pod whose other init containers have blocks and whose app
\* containers have none
LastInitContainerAllocated ==
    /\ last'.op = "Allocate"
    /\ last'.err = ErrNone
    /\ pods[last'.pod].InitContainers # <<>>
    /\ last'.container
           = pods[last'.pod].InitContainers[Len(pods[last'.pod].InitContainers)]
    /\ ~HasBlocks(assignments, last'.pod, last'.container)
    /\ HasBlocks(assignments', last'.pod, last'.container)
    /\ \A i \in 1..(Len(pods[last'.pod].InitContainers) - 1) :
           HasBlocks(assignments, last'.pod, pods[last'.pod].InitContainers[i])
    /\ \A i \in DOMAIN pods[last'.pod].Containers :
           ~HasBlocks(assignments', last'.pod, pods[last'.pod].Containers[i])

\* C29: once the init containers of a pod are allocated and before an app
\* container of the pod is, the reusable pool holds for the pod, for each
\* resource class an init container requests, a block whose size is the
\* largest request of the class among the init containers of the pod; and
\* the pool never holds entries for more than one pod
C29_ReusablePool ==
    [][/\ Cardinality(DOMAIN memoryToReuse') <= 1
       /\ LastInitContainerAllocated =>
              \A r \in RequestedBy(pods[last'.pod], pods[last'.pod].InitContainers) :
                  \E i \in DOMAIN ReusableOf(memoryToReuse', last'.pod) :
                      /\ ReusableOf(memoryToReuse', last'.pod)[i].Type = r
                      /\ ReusableOf(memoryToReuse', last'.pod)[i].Size
                             = LargestInitRequest(pods[last'.pod], r)]_vars

----------------------------------------------------------------------------
(* The errors of Allocate, checked under Spec                               *)

\* C30: whenever the static policy's Allocate returns an error, the machine
\* state, the assignments and the reusable pool are as they were before the
\* call
C30_FailedAllocateChangesNothing ==
    [][(last'.op = "Allocate" /\ last'.err # ErrNone) =>
           UNCHANGED <<machineState, assignments, memoryToReuse>>]_vars

\* an Allocate failed, for want of a default hint or of a hint to extend to,
\* while containers hold blocks and the pool has blocks for a pod
C30_Witness ==
    /\ last.op = "Allocate"
    /\ last.err \in {"failed to get the default NUMA affinity",
                     "failed to find NUMA nodes to extend the current topology hint"}
    /\ assignments # EmptyMap
    /\ memoryToReuse # EmptyMap

----------------------------------------------------------------------------
(* The frame of Allocate, checked under Spec                                *)

\* the bytes of the class that the step moves from free to reserved on the node
Reservation(nodeId, resourceName) ==
    machineState'[nodeId].MemoryMap[resourceName].Reserved
        - machineState[nodeId].MemoryMap[resourceName].Reserved

\* C31: an Allocate that returns nil and stores blocks for a container
\* changes only the free and reserved memory, the count of assignments and
\* the group of the nodes of the final mask, and the free and reserved memory
\* only of the resource types the container requests; the nodes outside the
\* mask, total, system-reserved and allocatable of every table and the
\* blocks of every other container are unchanged, and for each type the
\* bytes moved from free to reserved over the mask are the size of the block
C31_AllocateFrame ==
    [][AllocateCreatesBlocks =>
        LET key == <<last'.pod, last'.container>>
            blocks == assignments'[key]
            mask == SeqToSet(blocks[1].NUMAAffinity)
            types == {blocks[i].Type : i \in DOMAIN blocks}
        IN  /\ DOMAIN assignments' = DOMAIN assignments \cup {key}
            /\ \A k \in DOMAIN assignments : assignments'[k] = assignments[k]
            /\ types = DOMAIN getRequestedResources(
                           ContainerRequests(pods[last'.pod], last'.container)).res
            /\ \A i \in DOMAIN blocks : SeqToSet(blocks[i].NUMAAffinity) = mask
            /\ \A n \in NumaNodes \ mask : machineState'[n] = machineState[n]
            /\ \A n \in NumaNodes :
                   \A r \in Resources :
                       /\ r \notin types =>
                              machineState'[n].MemoryMap[r] = machineState[n].MemoryMap[r]
                       /\ Reservation(n, r) >= 0
                       /\ machineState'[n].MemoryMap[r] =
                              [machineState[n].MemoryMap[r] EXCEPT
                                  !.Reserved = @ + Reservation(n, r),
                                  !.Free = @ - Reservation(n, r)]
            /\ \A r \in types :
                   SumOver([n \in mask |-> Reservation(n, r)], mask)
                       = SizeOfBlocks(blocks, r)]_vars

\* an Allocate stored a block of more than one unit that spans both nodes,
\* while another container keeps its blocks
C31_Witness ==
    /\ last.op = "Allocate"
    /\ last.err = ErrNone
    /\ ~last.present
    /\ HasBlocks(assignments, last.pod, last.container)
    /\ DOMAIN assignments # {<<last.pod, last.container>>}
    /\ \E i \in DOMAIN assignments[<<last.pod, last.container>>] :
           /\ Len(assignments[<<last.pod, last.container>>][i].NUMAAffinity) > 1
           /\ assignments[<<last.pod, last.container>>][i].Size > 1024

(***************************************************************************)
(* Restarting on the state the policy left, checked under Spec             *)
(***************************************************************************)

\* validateState accepts the stored pair in whatever order it ranges over
\* the assignments
RestartSucceeds ==
    \A order \in AssignmentOrders(assignments) :
        validateState(machineState, assignments, order).err = ErrNone

\* C32: in every state reached from the default machine state by Allocate
\* and RemoveContainer calls, validateState succeeds on the stored machine
\* state and assignments: simulating the stored blocks on a fresh default
\* state gives the stored machine state on every node
C32_RestartSafety ==
    RestartSucceeds

\* a container has just been removed, the other containers keep their blocks,
\* which all span several nodes and reuse nothing, and validateState rejects what the removal left in whatever order it ranges
\* over the assignments
C32_RestartFails ==
    /\ last.op = "RemoveContainer"
    /\ last.present /\ last.err = ErrNone
    /\ DOMAIN assignments # {}
    /\ \A key \in DOMAIN assignments : \A i \in DOMAIN assignments[key] :
           /\ Len(assignments[key][i].NUMAAffinity) > 1
           /\ assignments[key][i].Reused = 0
    /\ \A n \in NumaNodes : Len(machineState[n].Nodes) > 1
    /\ \A order \in AssignmentOrders(assignments) :
           validateState(machineState, assignments, order).err = ErrStatesDiffer

(***************************************************************************)
(* The machine state against the assignments, checked under Spec           *)
(***************************************************************************)

\* the blocks of the assignments, each named by its container and position
BlockRefs(asg) ==
    UNION {{<<key, i>> : i \in DOMAIN asg[key]} : key \in DOMAIN asg}

\* the bytes of one resource class reserved over all nodes
ReservedTotal(ms, resourceName) ==
    SumOver([n \in DOMAIN ms |-> ms[n].MemoryMap[resourceName].Reserved], DOMAIN ms)

\* the bytes of one resource class recorded in the blocks of the assignments
AssignedTotal(asg, resourceName) ==
    SumOver([ref \in BlockRefs(asg) |->
                IF asg[ref[1]][ref[2]].Type = resourceName
                THEN asg[ref[1]][ref[2]].Size ELSE 0],
            BlockRefs(asg))

\* the number of blocks whose NUMA affinity contains the node
BlocksOnNode(asg, nodeId) ==
    Cardinality({ref \in BlockRefs(asg) :
                    nodeId \in SeqToSet(asg[ref[1]][ref[2]].NUMAAffinity)})

ReservedMatchesBlocks ==
    \A resourceName \in Resources :
        ReservedTotal(machineState, resourceName)
            = AssignedTotal(assignments, resourceName)

CountsMatchBlocks ==
    \A nodeId \in NumaNodes :
        machineState[nodeId].NumberOfAssignments
            = BlocksOnNode(assignments, nodeId)

EmptyMeansDefault ==
    DOMAIN assignments = {} => machineState = getDefaultMachineState

\* C33: in every state reached from the default machine state by Allocate
\* and RemoveContainer calls, for every resource class the reserved bytes
\* summed over the nodes equal the sizes summed over the blocks of that class,
\* every node's NumberOfAssignments is the number of blocks whose NUMA
\* affinity contains the node, and with no assignments the machine state is
\* the default one
C33_AccountingMatchesAssignments ==
    /\ ReservedMatchesBlocks
    /\ CountsMatchBlocks
    /\ EmptyMeansDefault

\* the last container has just been removed, the assignments are empty, and a
\* node still has reserved memory
C33_ReservedWithoutAssignments ==
    /\ last.op = "RemoveContainer" /\ last.present /\ last.err = ErrNone
    /\ DOMAIN assignments = {}
    /\ \A nodeId \in NumaNodes : machineState[nodeId].NumberOfAssignments = 0
    /\ \E nodeId \in NumaNodes :
           machineState[nodeId].MemoryMap[ResourceMemory].Reserved > 0

(***************************************************************************)
(* What a pod holds against what its containers requested, checked under   *)
(* Spec                                                                    *)
(***************************************************************************)

\* the bytes of one resource class recorded in the blocks of one pod
AssignedToPod(asg, podUID, resourceName) ==
    SumOver([ref \in BlockRefs(asg) |->
                IF ref[1][1] = podUID /\ asg[ref[1]][ref[2]].Type = resourceName
                THEN asg[ref[1]][ref[2]].Size ELSE 0],
            BlockRefs(asg))

\* C34: while a container that requested R bytes of a resource class has
\* blocks in the assignments, the blocks of that class held by the containers
\* of its pod add up to at least R
C34_NoOverCommitThroughReuse ==
    \A key \in DOMAIN assignments :
        \A resourceName \in DOMAIN RequestedOf(key[1], key[2]) :
            AssignedToPod(assignments, key[1], resourceName)
                >= RequestedOf(key[1], key[2])[resourceName]

\* an app container that requested more than its pod's init container holds
\* has just been allocated, and the pod's blocks add up to less than its
\* request
C34_AppLargerThanInit ==
    /\ last.op = "Allocate" /\ last.err = ErrNone /\ ~last.present
    /\ last.container \notin SeqToSet(pods[last.pod].InitContainers)
    /\ \E key \in DOMAIN assignments :
           /\ key[1] = last.pod
           /\ key[2] \in SeqToSet(pods[last.pod].InitContainers)
    /\ \E resourceName \in DOMAIN RequestedOf(last.pod, last.container) :
           AssignedToPod(assignments, last.pod, resourceName)
               < RequestedOf(last.pod, last.container)[resourceName]

(***************************************************************************)
(* Allocate for a container that is already in the assignments, checked    *)
(* under Spec                                                              *)
(***************************************************************************)

\* the reusable blocks of the pod; a pod with no entry has none
PoolOf(reuse, podUID) ==
    IF podUID \in DOMAIN reuse THEN reuse[podUID] ELSE <<>>

\* the step is an Allocate for an app container that has blocks already
AllocatesAppContainerAgain ==
    /\ last'.op = "Allocate" /\ last'.err = ErrNone
    /\ HasBlocks(assignments, last'.pod, last'.container)
    /\ last'.container \notin SeqToSet(pods[last'.pod].InitContainers)

\* C35: an Allocate for an app container that already has blocks in the
\* assignments leaves the reusable blocks of its pod as they are
C35_RepeatedAllocateKeepsPool ==
    [][AllocatesAppContainerAgain =>
           PoolOf(memoryToReuse', last'.pod) = PoolOf(memoryToReuse, last'.pod)]_vars
====
